---- MODULE Spec2Model ----
(***************************************************************************)
(* A model of the dynamic configuration platform: the value merger and the *)
(* rule composer (src/src/index.ts), the rule engine                       *)
(* (src/src/services/ruleEngine.ts), the conditional rule loader           *)
(* (src/src/services/conditionalRuleLoader.ts), the configuration manager  *)
(* (src/unnamed/part_002) and the HTTP handlers (src/src/index.ts).        *)
(***************************************************************************)
EXTENDS Integers, Sequences, FiniteSets, TLC

VARIABLES
    call,             \* the operation under way in a function-level specification
    ret,              \* its result, Pending until the operation has run
    ruleRegistry,     \* RuleEngine.ruleRegistry: rule id -> rule
    evaluationCache,  \* RuleEngine.evaluationCache: <<rule id, context>> -> boolean
    specifications,   \* ConfigurationManager.specifications: store key -> spec
    loadedRulesCache, \* ConditionalRuleLoader.loadedRulesCache: key -> rules
    templates,        \* RuleComposer.templates: template id -> partial rule
    clock,            \* the time of day, as the number of writes so far
    response,         \* the response to the last HTTP request
    locals            \* the local values of the handler that served it

engineVars == <<ruleRegistry, evaluationCache>>
serverVars == <<specifications, loadedRulesCache, templates, clock, response,
                locals>>
vars == <<call, ret, ruleRegistry, evaluationCache, specifications,
          loadedRulesCache, templates, clock, response, locals>>

Pending == <<"pending">>

(***************************************************************************)
(* JavaScript values.  A configuration document is open-ended nested data, *)
(* so a value is a tagged pair: a number, a string, null, undefined, an    *)
(* array (a sequence of values) or a plain object (a function from keys to *)
(* values).  A thrown TypeError is the value Throw.                         *)
(***************************************************************************)
N(n) == <<"num", n>>
S(s) == <<"str", s>>
Nul == <<"null", 0>>
Undef == <<"undef", 0>>
A(a) == <<"arr", a>>
M(m) == <<"map", m>>
Throw == <<"throw", "TypeError">>

Tag(v) == v[1]
Val(v) == v[2]
IsMap(v) == Tag(v) = "map"
IsArray(v) == Tag(v) = "arr"
IsThrow(v) == Tag(v) = "throw"

\* x instanceof Object: arrays and plain objects, never a primitive or null
IsObject(v) == Tag(v) \in {"map", "arr"}

\* the property name of an array index
IndexKey(i) == <<"0", "1", "2", "3", "4", "5", "6", "7", "8", "9">>[i + 1]

\* the characters of a string, as a sequence of one-character strings
Chars(s) == [i \in 1..Len(s) |-> SubSeq(s, i, i)]

\* the own enumerable properties of a value, as a function from keys:
\* what { ...v } copies and what for (key in v) walks
OwnProps(v) ==
    CASE Tag(v) = "map" -> Val(v)
      [] Tag(v) = "arr" ->
            [k \in {IndexKey(i - 1) : i \in 1..Len(Val(v))} |->
                Val(v)[(CHOOSE i \in 1..Len(Val(v)) : IndexKey(i - 1) = k)]]
      [] Tag(v) = "str" ->
            [k \in {IndexKey(i - 1) : i \in 1..Len(Val(v))} |->
                S(Chars(Val(v))[(CHOOSE i \in 1..Len(Val(v)) : IndexKey(i - 1) = k)])]
      [] OTHER -> <<>>

\* { ...v }
Spread(v) == OwnProps(v)

\* key in v raises a TypeError unless v is an object
InThrows(v) == ~ IsObject(v)

\* key in v, for an object v (an array also has "length")
HasKey(v, key) ==
    \/ key \in DOMAIN OwnProps(v)
    \/ IsArray(v) /\ key = "length"

\* v[key], for an object v that has the key
Get(v, key) ==
    IF IsArray(v) /\ key = "length" THEN N(Len(Val(v))) ELSE OwnProps(v)[key]

B(b) == <<"bool", b>>
NaN == <<"nan", 0>>

\* truthiness, as || and && and if (...) read it
Truthy(v) ==
    CASE Tag(v) \in {"undef", "null", "nan"} -> FALSE
      [] Tag(v) = "str" -> Val(v) # ""
      [] Tag(v) = "num" -> Val(v) # 0
      [] Tag(v) = "bool" -> Val(v)
      [] OTHER -> TRUE

\* a || b
Or(a, b) == IF Truthy(a) THEN a ELSE b

\* a || b in the place of a ?? b
Nullish_Or(a, b) == Or(a, b)

\* a ?? b
Nullish(a, b) == IF Tag(a) \in {"undef", "null"} THEN b ELSE a

\* a === b, where a and b are not the same object: two objects are never
\* strictly equal, primitives are equal when their type and value are
StrictEq(a, b) == ~ IsObject(a) /\ Tag(a) # "nan" /\ a = b

\* the code of a character (printable ASCII; the backslash, code 92, and the
\* backquote, code 96, are not characters of the model)
Ascii ==
    <<" ", "!", "\"", "#", "$", "%", "&", "'", "(", ")", "*", "+", ",", "-",
      ".", "/", "0", "1", "2", "3", "4", "5", "6", "7", "8", "9", ":", ";",
      "<", "=", ">", "?", "@", "A", "B", "C", "D", "E", "F", "G", "H", "I",
      "J", "K", "L", "M", "N", "O", "P", "Q", "R", "S", "T", "U", "V", "W",
      "X", "Y", "Z", "[", "(92)", "]", "^", "_", "(96)", "a", "b", "c", "d", "e",
      "f", "g", "h", "i", "j", "k", "l", "m", "n", "o", "p", "q", "r", "s",
      "t", "u", "v", "w", "x", "y", "z", "{", "|", "}", "~">>

\* the position of each character in the table
AsciiIndex ==
    [char \in {Ascii[c] : c \in 1..Len(Ascii)} |->
        CHOOSE c \in 1..Len(Ascii) : Ascii[c] = char]

charCodeAt(str, i) == 31 + AsciiIndex[SubSeq(str, i + 1, i + 1)]

IsDigit(c) == c \in 48..57

\* Number(str) for the strings of the model: the empty string is 0, a
\* string of decimal digits is its value, every other string is NaN
RECURSIVE DigitsValue(_, _)
DigitsValue(str, n) ==
    IF n = 0 THEN 0
    ELSE 10 * DigitsValue(str, n - 1) + (charCodeAt(str, n - 1) - 48)

StrToNum(str) ==
    IF \A i \in 0..(Len(str) - 1) : IsDigit(charCodeAt(str, i))
    THEN N(DigitsValue(str, Len(str)))
    ELSE NaN

\* ToNumber of a primitive (an object operand is not modelled: NaN)
ToNumber(v) ==
    CASE Tag(v) = "num" -> v
      [] Tag(v) = "null" -> N(0)
      [] Tag(v) = "bool" -> N(IF Val(v) THEN 1 ELSE 0)
      [] Tag(v) = "str" -> StrToNum(Val(v))
      [] OTHER -> NaN

\* a < b on two strings: by code units, a proper prefix being smaller
RECURSIVE StrLess(_, _, _)
StrLess(a, b, i) ==
    IF i >= Len(b) THEN FALSE
    ELSE IF i >= Len(a) THEN TRUE
    ELSE IF charCodeAt(a, i) # charCodeAt(b, i)
         THEN charCodeAt(a, i) < charCodeAt(b, i)
         ELSE StrLess(a, b, i + 1)

\* the abstract relational comparison a < b: TRUE, FALSE, or undefined
\* (given as "nan") when an operand converts to NaN
Less(a, b) ==
    IF Tag(a) = "str" /\ Tag(b) = "str"
    THEN B(StrLess(Val(a), Val(b), 0))
    ELSE IF ToNumber(a) = NaN \/ ToNumber(b) = NaN THEN NaN
         ELSE B(Val(ToNumber(a)) < Val(ToNumber(b)))

Lt(a, b) == Less(a, b) = B(TRUE)
Gt(a, b) == Less(b, a) = B(TRUE)
Lte(a, b) == Less(b, a) = B(FALSE)
Gte(a, b) == Less(a, b) = B(FALSE)

\* String(v) for a primitive
RECURSIVE NatToStr(_)
NatToStr(n) ==
    IF n < 10 THEN IndexKey(n) ELSE NatToStr(n \div 10) \o IndexKey(n % 10)

ToStr(v) ==
    CASE Tag(v) = "str" -> Val(v)
      [] Tag(v) = "undef" -> "undefined"
      [] Tag(v) = "null" -> "null"
      [] Tag(v) = "bool" -> IF Val(v) THEN "true" ELSE "false"
      [] Tag(v) = "num" /\ Val(v) >= 0 -> NatToStr(Val(v))

\* value.includes(x) on an array
Includes(arr, x) == \E i \in 1..Len(Val(arr)) : StrictEq(Val(arr)[i], x)

(***************************************************************************)
(* new RegExp(pattern).test(str), for the patterns of the model: a pattern *)
(* without metacharacters matches when it occurs in str; "^" followed by   *)
(* such a pattern matches at the start; "(" and "[" do not compile (a       *)
(* SyntaxError); an undefined pattern is the empty pattern.                 *)
(***************************************************************************)
MetaChars == {"^", "$", ".", "|", "?", "*", "+", "(", ")", "[", "]", "{", "}"}

IsLiteral(pat) == \A i \in 1..Len(pat) : SubSeq(pat, i, i) \notin MetaChars

Contains(str, pat) ==
    \/ pat = ""
    \/ \E i \in 0..(Len(str) - Len(pat)) :
            SubSeq(str, i + 1, i + Len(pat)) = pat

RegExpThrows(value) == Tag(value) = "str" /\ Val(value) \in {"(", "["}

RegExpTest(value, str) ==
    CASE Tag(value) = "undef" -> TRUE
      [] Tag(value) = "str" /\ IsLiteral(Val(value)) -> Contains(str, Val(value))
      [] Tag(value) = "str" /\ Len(Val(value)) > 0
            /\ SubSeq(Val(value), 1, 1) = "^"
            /\ IsLiteral(SubSeq(Val(value), 2, Len(Val(value)))) ->
                /\ Len(str) >= Len(Val(value)) - 1
                /\ SubSeq(str, 1, Len(Val(value)) - 1)
                        = SubSeq(Val(value), 2, Len(Val(value)))

(***************************************************************************)
(* RuleComposer.deepMerge.  Each key of source is assigned independently   *)
(* of the others, so the loop is a map over the keys; it throws when       *)
(* evaluating the test of some key throws or the nested call does.          *)
(***************************************************************************)
RECURSIVE deepMerge(_, _)
deepMerge(target, source) ==
    LET result == Spread(target)
        keys == DOMAIN OwnProps(source)
        recurse(key) ==
            /\ IsObject(Get(source, key))
            /\ HasKey(target, key)
            /\ ~ IsArray(Get(source, key))
        testThrows(key) == IsObject(Get(source, key)) /\ InThrows(target)
        entry(key) ==
            IF recurse(key)
            THEN deepMerge(Get(target, key), Get(source, key))
            ELSE Get(source, key)
    IN  IF \E key \in keys :
              testThrows(key) \/ (recurse(key) /\ IsThrow(entry(key)))
        THEN Throw
        ELSE M([key \in DOMAIN result \cup keys |->
                    IF key \in keys THEN entry(key) ELSE result[key]])

(***************************************************************************)
(* The bounded universe of documents: objects over Keys whose values are   *)
(* leaves (a string, null, an array of numbers) or, up to MaxDepth levels,  *)
(* objects again.  "0" is a key that is also an array index.               *)
(***************************************************************************)
MaxDepth == 2
Keys == {"a", "0"}
Leaves == {S("s"), Nul, A(<<N(2)>>)}

ObjectsOver(V) == {M(f) : f \in UNION {[ks -> V] : ks \in SUBSET Keys}}

RECURSIVE Values(_)
Values(d) == IF d = 0 THEN Leaves ELSE Leaves \cup ObjectsOver(Values(d - 1))

Documents == ObjectsOver(Values(MaxDepth - 1))

(***************************************************************************)
(* Function-level specification of the value merger: the arguments are    *)
(* drawn from the bounded universe and the call is applied.                *)
(***************************************************************************)
NoResponse == [status |-> 0]
NoLocals == [handler |-> "none"]

\* the services as index.ts constructs them, over an empty config store
EngineInit ==
    /\ ruleRegistry = <<>>
    /\ evaluationCache = <<>>
    /\ specifications = <<>>
    /\ loadedRulesCache = <<>>
    /\ templates = <<>>
    /\ clock = 0
    /\ response = NoResponse
    /\ locals = NoLocals

MergeInit ==
    /\ call \in {<<"deepMerge", t, s>> : t \in Documents, s \in Documents}
    /\ ret = Pending
    /\ EngineInit

DeepMergeCall ==
    /\ call[1] = "deepMerge"
    /\ ret = Pending
    /\ ret' = deepMerge(call[2], call[3])
    /\ UNCHANGED <<call, engineVars, serverVars>>

MergeNext == DeepMergeCall

SpecMerge == MergeInit /\ [][MergeNext]_vars

(***************************************************************************)
(* The reference deep merge of two objects: for each key of right, recurse *)
(* only when the key exists in left and both values are objects (not       *)
(* arrays, not scalars); otherwise right's value replaces left's; keys     *)
(* only in left are kept.                                                   *)
(***************************************************************************)
RECURSIVE RefMerge(_, _)
RefMerge(left, right) ==
    LET l == Val(left)
        r == Val(right)
    IN  M([k \in DOMAIN l \cup DOMAIN r |->
            IF k \notin DOMAIN r THEN l[k]
            ELSE IF k \in DOMAIN l /\ IsMap(l[k]) /\ IsMap(r[k])
                 THEN RefMerge(l[k], r[k])
                 ELSE r[k]])

\* C8: for every pair of documents deepMerge returns, without raising, the
\* reference deep merge: values are merged recursively only when both are
\* objects, in every other case right's value replaces left's value whole,
\* and keys only in left are kept.
C8_DeepMergeIsReference ==
    (call[1] = "deepMerge" /\ ret # Pending) => ret = RefMerge(call[2], call[3])

\* C8, the part the code keeps: when no value of left that is not an object
\* meets an object of right, deepMerge is the reference merge.
RECURSIVE Compatible(_, _)
Compatible(left, right) ==
    \A k \in DOMAIN Val(left) \cap DOMAIN Val(right) :
        IsMap(Val(right)[k]) =>
            /\ IsMap(Val(left)[k])
            /\ Compatible(Val(left)[k], Val(right)[k])

C8_DeepMergeCompatible ==
    (call[1] = "deepMerge" /\ ret # Pending /\ Compatible(call[2], call[3]))
        => ret = RefMerge(call[2], call[3])

(***************************************************************************)
(* ConfigRule.  Optional array fields that the engine reads with ?. or &&  *)
(* (dependencies, exclusions, executeAfter, executeBefore, tags) are the   *)
(* empty sequence when absent; an absent resolutionStrategy is             *)
(* "undefined"; an absent chain is NoChain and an absent composition has   *)
(* type "none".                                                             *)
(***************************************************************************)
NoChain == <<>>
\* composition.overrides is a partial rule: a record of the fields it sets
NoOverrides == <<>>
NoComposition ==
    [type |-> "none", baseRuleId |-> "", sourceRuleIds |-> <<>>,
     overrides |-> NoOverrides]

BaseRule ==
    [id |-> "r", name |-> "r", description |-> "", priority |-> 0,
     conditions |-> <<>>, config |-> M(<<>>), resolutionStrategy |-> "merge",
     enabled |-> TRUE, dependencies |-> <<>>, exclusions |-> <<>>,
     chain |-> NoChain, executeAfter |-> <<>>, executeBefore |-> <<>>,
     stopPropagation |-> FALSE, composition |-> NoComposition,
     tags |-> <<>>, metadata |-> M(<<>>)]

\* { ...a, ...b } for two objects given as functions from keys
ObjSpread2(a, b) ==
    [k \in DOMAIN a \cup DOMAIN b |-> IF k \in DOMAIN b THEN b[k] ELSE a[k]]

(***************************************************************************)
(* RuleEngine.resolveConfig: the loop over the matched rules, with the     *)
(* accumulator result.  A strategy that is none of the three cases leaves  *)
(* the accumulator as it is; a TypeError raised by deepMerge ends the call. *)
(***************************************************************************)
\* a plausible slip: inherit spreads in the other order, so the rule wins
resolveStep_InheritRuleWins(result, rule) ==
    CASE rule.resolutionStrategy = "override" -> M(Spread(rule.config))
      [] rule.resolutionStrategy = "merge" -> deepMerge(result, rule.config)
      [] rule.resolutionStrategy = "inherit" ->
            M(ObjSpread2(Spread(result), Spread(rule.config)))
      [] OTHER -> result

resolveStep(result, rule) ==
    CASE rule.resolutionStrategy = "override" -> M(Spread(rule.config))
      [] rule.resolutionStrategy = "merge" -> deepMerge(result, rule.config)
      [] rule.resolutionStrategy = "inherit" ->
            M(ObjSpread2(Spread(rule.config), Spread(result)))
      [] OTHER -> result

RECURSIVE resolveLoop(_, _)
resolveLoop(result, rules) ==
    IF IsThrow(result) \/ rules = <<>> THEN result
    ELSE resolveLoop(resolveStep(result, Head(rules)), Tail(rules))

resolveConfig(defaultConfig, matchedRules) ==
    resolveLoop(M(Spread(defaultConfig)), matchedRules)

(***************************************************************************)
(* Function-level specification of resolveConfig: a default document and a *)
(* list of at most MaxMatched matched rules, each with a document and a    *)
(* strategy (or none).                                                      *)
(***************************************************************************)
MaxMatched == 2

ConfigDocs ==
    { M(<<>>),
      M("a" :> S("s")),
      M("a" :> M("a" :> S("s"))),
      M("a" :> M("0" :> Nul) @@ "0" :> A(<<N(2)>>)),
      M("0" :> S("s")),
      M("a" :> A(<<N(2)>>) @@ "0" :> M("a" :> Nul)) }

Strategies == {"merge", "override", "inherit"}

FoldRules ==
    {[BaseRule EXCEPT !.config = c, !.resolutionStrategy = st] :
        c \in ConfigDocs, st \in Strategies \cup {"undefined"}}

SeqsUpTo(U, n) == UNION {[1..k -> U] : k \in 0..n}

ResolveConfigInit ==
    /\ call \in {<<"resolveConfig", d, rs>> :
                    d \in ConfigDocs, rs \in SeqsUpTo(FoldRules, MaxMatched)}
    /\ ret = Pending
    /\ EngineInit

ResolveConfigCall ==
    /\ call[1] = "resolveConfig"
    /\ ret = Pending
    /\ ret' = resolveConfig(call[2], call[3])
    /\ UNCHANGED <<call, engineVars, serverVars>>

ResolveConfigNext == ResolveConfigCall

SpecResolveConfig == ResolveConfigInit /\ [][ResolveConfigNext]_vars

(***************************************************************************)
(* The fold the resolver is to perform, one step per matched rule.         *)
(***************************************************************************)
StrategyStep(acc, rule) ==
    IF IsThrow(acc) THEN acc
    ELSE CASE rule.resolutionStrategy = "merge" -> deepMerge(acc, rule.config)
           [] rule.resolutionStrategy = "override" -> rule.config
           [] rule.resolutionStrategy = "inherit" ->
                M([k \in DOMAIN Val(acc) \cup DOMAIN Val(rule.config) |->
                    IF k \in DOMAIN Val(acc) THEN Val(acc)[k]
                    ELSE Val(rule.config)[k]])

C9_AbsentStrategyIsMerge ==
    (call[1] = "resolveConfig" /\ ret # Pending) =>
        ret = resolveConfig(call[2],
                [i \in DOMAIN call[3] |->
                    IF call[3][i].resolutionStrategy = "undefined"
                    THEN [call[3][i] EXCEPT !.resolutionStrategy = "merge"]
                    ELSE call[3][i]])

(***************************************************************************)
(* RequestContext.  An absent optional field is Undef; clientProvidedGeo   *)
(* and parsedUA hold the two fields the engine reads.                       *)
(***************************************************************************)
BaseContext ==
    [userAgent |-> S(""), parsedUA |-> [os |-> Undef, device |-> Undef],
     appVersion |-> S("1.0.0"), os |-> Undef, device |-> Undef,
     geoCountry |-> Undef, geoRegion |-> Undef,
     clientProvidedGeo |-> [country |-> Undef, region |-> Undef],
     timestamp |-> N(1000), environment |-> Undef, featureFlags |-> Undef,
     userId |-> Undef, customContext |-> Undef]

Cond(type, operator, value) ==
    [type |-> type, operator |-> operator, value |-> value]

ConditionTypes ==
    {"app_version", "os", "device", "geo_country", "geo_region",
     "time_after", "time_before", "user_agent_match"}

\* RuleEngine.evaluateCondition, first switch: the context value of a type
contextValueOf(type, context) ==
    CASE type = "app_version" -> context.appVersion
      [] type = "os" -> Or(context.os, context.parsedUA.os)
      [] type = "device" -> Or(context.device, context.parsedUA.device)
      [] type = "geo_country" ->
            Or(context.clientProvidedGeo.country, context.geoCountry)
      [] type = "geo_region" ->
            Or(context.clientProvidedGeo.region, context.geoRegion)
      [] type = "time_after" -> context.timestamp
      [] type = "time_before" -> context.timestamp
      [] type = "user_agent_match" -> context.userAgent

\* RuleEngine.evaluateCondition, second switch: the operator
applyOperator(operator, contextValue, value) ==
    CASE operator = "eq" -> StrictEq(contextValue, value)
      [] operator = "ne" -> ~ StrictEq(contextValue, value)
      [] operator = "gt" -> Gt(contextValue, value)
      [] operator = "lt" -> Lt(contextValue, value)
      [] operator = "gte" -> Gte(contextValue, value)
      [] operator = "lte" -> Lte(contextValue, value)
      [] operator = "in" -> IsArray(value) /\ Includes(value, contextValue)
      [] operator = "regex" -> RegExpTest(value, ToStr(contextValue))
      [] OTHER -> FALSE

\* whether evaluateCondition raises (new RegExp on a pattern that does not
\* compile)
evaluateConditionThrows(condition, context) ==
    /\ condition.type \in ConditionTypes
    /\ condition.operator = "regex"
    /\ RegExpThrows(condition.value)

evaluateCondition(condition, context) ==
    IF condition.type \notin ConditionTypes THEN FALSE
    ELSE IF evaluateConditionThrows(condition, context) THEN FALSE
    ELSE applyOperator(condition.operator,
                       contextValueOf(condition.type, context), condition.value)

(***************************************************************************)
(* RuleEngine.evaluateRuleBasic, with the memoization cache passed in and  *)
(* returned: [value, cache, thrown].  conditions.every stops at the first  *)
(* condition that is false or raises.                                       *)
(***************************************************************************)
CacheKey(rule, context) == <<rule.id, context>>

evaluateRuleBasic(rule, context, cache) ==
    IF ~ rule.enabled THEN [value |-> FALSE, cache |-> cache, thrown |-> FALSE]
    ELSE IF CacheKey(rule, context) \in DOMAIN cache
    THEN [value |-> cache[CacheKey(rule, context)], cache |-> cache,
          thrown |-> FALSE]
    ELSE LET cs == rule.conditions
             stops == {i \in 1..Len(cs) :
                         \/ evaluateConditionThrows(cs[i], context)
                         \/ ~ evaluateCondition(cs[i], context)}
             first == CHOOSE i \in stops : \A j \in stops : i <= j
             result == stops = {}
         IN  IF stops # {} /\ evaluateConditionThrows(cs[first], context)
             THEN [value |-> FALSE, cache |-> cache, thrown |-> TRUE]
             ELSE [value |-> result,
                   cache |-> (CacheKey(rule, context) :> result) @@ cache,
                   thrown |-> FALSE]

(***************************************************************************)
(* RuleEngine.evaluateRuleChain.  A chain is <<operator, items>>; an item  *)
(* is <<"id", ruleId>> or <<"chain", chain>>.  rules.map evaluates every   *)
(* item in order, each through the cache.                                   *)
(***************************************************************************)
Chain(operator, items) == <<operator, items>>

RECURSIVE evaluateRuleChain(_, _, _, _)
RECURSIVE chainResults(_, _, _, _, _)

\* one element of rules.map: a rule id (an unregistered id gives false) or a
\* nested chain
chainItem(item, context, registry, cache) ==
    IF item[1] = "id"
    THEN IF item[2] \notin DOMAIN registry
         THEN [value |-> FALSE, cache |-> cache, thrown |-> FALSE]
         ELSE evaluateRuleBasic(registry[item[2]], context, cache)
    ELSE evaluateRuleChain(item[2], context, registry, cache)

chainNext(items, context, registry, results, r) ==
    IF r.thrown
    THEN [results |-> results, cache |-> r.cache, thrown |-> TRUE]
    ELSE chainResults(Tail(items), context, registry, r.cache,
                      Append(results, r.value))

chainResults(items, context, registry, cache, results) ==
    IF items = <<>>
    THEN [results |-> results, cache |-> cache, thrown |-> FALSE]
    ELSE chainNext(items, context, registry, results,
                   chainItem(Head(items), context, registry, cache))

\* the switch on chain.operator over the mapped results
chainValue(operator, results) ==
    CASE operator = "AND" -> \A i \in DOMAIN results : results[i]
      [] operator = "OR" -> \E i \in DOMAIN results : results[i]
      [] operator = "NOT" -> results = <<>> \/ ~ results[1]
      [] operator = "XOR" ->
            Cardinality({i \in DOMAIN results : results[i]}) = 1
      [] OTHER -> FALSE

chainOutcome(operator, m) ==
    [value |-> chainValue(operator, m.results), cache |-> m.cache,
     thrown |-> m.thrown]

evaluateRuleChain(chain, context, registry, cache) ==
    chainOutcome(chain[1],
                 chainResults(chain[2], context, registry, cache, <<>>))

(***************************************************************************)
(* RuleEngine.evaluateRule: [matched, rule, reason, cache, thrown].        *)
(***************************************************************************)
Range(seq) == {seq[i] : i \in DOMAIN seq}

noMatch(rule, reason, cache) ==
    [matched |-> FALSE, rule |-> rule, reason |-> reason, cache |-> cache,
     thrown |-> FALSE]

\* if (rule.chain) { const chainResult = this.evaluateRuleChain(...) }
ruleChainResult(rule, context, registry, cache) ==
    IF rule.chain # NoChain
    THEN evaluateRuleChain(rule.chain, context, registry, cache)
    ELSE [value |-> TRUE, cache |-> cache, thrown |-> FALSE]

\* the returned object, from the outcome of evaluateRuleBasic
basicOutcome(rule, basicMatch) ==
    [matched |-> basicMatch.value, rule |-> rule,
     reason |-> IF basicMatch.thrown THEN ""
                ELSE IF basicMatch.value THEN "All conditions met"
                ELSE "Conditions not met",
     cache |-> basicMatch.cache, thrown |-> basicMatch.thrown]

afterChain(rule, context, chainResult) ==
    IF chainResult.thrown
    THEN [matched |-> FALSE, rule |-> rule, reason |-> "",
          cache |-> chainResult.cache, thrown |-> TRUE]
    ELSE IF ~ chainResult.value
    THEN noMatch(rule, "Chain evaluation failed", chainResult.cache)
    ELSE basicOutcome(rule,
                      evaluateRuleBasic(rule, context, chainResult.cache))

\* evaluateRule without the exclusions check
evaluateRule_NoExclusions(rule, context, matchedRuleIds, registry, cache) ==
    IF ~ rule.enabled THEN noMatch(rule, "Rule disabled", cache)
    ELSE IF ~ \A id \in Range(rule.dependencies) : id \in matchedRuleIds
    THEN noMatch(rule, "Missing dependencies", cache)
    ELSE afterChain(rule, context,
                    ruleChainResult(rule, context, registry, cache))

\* evaluateRule without the dependencies check
evaluateRule_NoDependencies(rule, context, matchedRuleIds, registry, cache) ==
    IF ~ rule.enabled THEN noMatch(rule, "Rule disabled", cache)
    ELSE IF \E id \in Range(rule.exclusions) : id \in matchedRuleIds
    THEN noMatch(rule, "Excluded by another rule", cache)
    ELSE afterChain(rule, context,
                    ruleChainResult(rule, context, registry, cache))

evaluateRule(rule, context, matchedRuleIds, registry, cache) ==
    IF ~ rule.enabled THEN noMatch(rule, "Rule disabled", cache)
    ELSE IF \E id \in Range(rule.exclusions) : id \in matchedRuleIds
    THEN noMatch(rule, "Excluded by another rule", cache)
    ELSE IF ~ \A id \in Range(rule.dependencies) : id \in matchedRuleIds
    THEN noMatch(rule, "Missing dependencies", cache)
    ELSE afterChain(rule, context,
                    ruleChainResult(rule, context, registry, cache))

(***************************************************************************)
(* RuleEngine.sortRulesByExecutionOrder.  Rules are handled by their index *)
(* in the input list (the code compares rule objects by identity).  graph  *)
(* maps an id to its dependents in insertion order (a Set: no duplicates); *)
(* inDegree counts every stated constraint.                                 *)
(***************************************************************************)
SetFn(f, k, v) == [x \in DOMAIN f \cup {k} |-> IF x = k THEN v ELSE f[x]]

\* graph.has(id) || graph.set(id, new Set())
Ensure(graph, id) == IF id \in DOMAIN graph THEN graph ELSE SetFn(graph, id, <<>>)

\* set.add(x)
SetAdd(seq, x) == IF x \in Range(seq) THEN seq ELSE Append(seq, x)

\* inDegree.get(id) || 0
DegreeOf(inDegree, id) == IF id \in DOMAIN inDegree THEN inDegree[id] ELSE 0

\* rule.executeAfter?.forEach(...)
RECURSIVE addExecuteAfter(_, _, _)
addExecuteAfter(g, ruleId, deps) ==
    IF deps = <<>> THEN g
    ELSE LET depId == Head(deps)
             graph1 == Ensure(g.graph, depId)
         IN  addExecuteAfter(
                [graph |-> SetFn(graph1, depId, SetAdd(graph1[depId], ruleId)),
                 inDegree |-> SetFn(g.inDegree, ruleId,
                                    DegreeOf(g.inDegree, ruleId) + 1)],
                ruleId, Tail(deps))

\* rule.executeBefore?.forEach(...)
RECURSIVE addExecuteBefore(_, _, _)
addExecuteBefore(g, ruleId, deps) ==
    IF deps = <<>> THEN g
    ELSE LET depId == Head(deps)
             graph1 == Ensure(g.graph, ruleId)
         IN  addExecuteBefore(
                [graph |-> SetFn(graph1, ruleId, SetAdd(graph1[ruleId], depId)),
                 inDegree |-> SetFn(g.inDegree, depId,
                                    DegreeOf(g.inDegree, depId) + 1)],
                ruleId, Tail(deps))

RECURSIVE buildGraph(_, _)
buildGraph(g, rules) ==
    IF rules = <<>> THEN g
    ELSE LET rule == Head(rules)
             g0 == [graph |-> Ensure(g.graph, rule.id),
                    inDegree |-> IF rule.id \in DOMAIN g.inDegree
                                 THEN g.inDegree
                                 ELSE SetFn(g.inDegree, rule.id, 0)]
         IN  buildGraph(
                addExecuteBefore(
                    addExecuteAfter(g0, rule.id, rule.executeAfter),
                    rule.id, rule.executeBefore),
                Tail(rules))

\* queue.sort((a, b) => b.priority - a.priority): a stable sort, priority
\* descending
RECURSIVE insertByPriority(_, _, _)

\* a sort that is not stable: a rule is put ahead of the rules of its own
\* priority that came before it
insertByPriority_Unstable(sortedQueue, i, rules) ==
    IF sortedQueue = <<>> THEN <<i>>
    ELSE IF rules[Head(sortedQueue)].priority > rules[i].priority
         THEN <<Head(sortedQueue)>> \o insertByPriority(Tail(sortedQueue), i, rules)
         ELSE <<i>> \o sortedQueue

insertByPriority(sortedQueue, i, rules) ==
    IF sortedQueue = <<>> THEN <<i>>
    ELSE IF rules[Head(sortedQueue)].priority >= rules[i].priority
         THEN <<Head(sortedQueue)>> \o insertByPriority(Tail(sortedQueue), i, rules)
         ELSE <<i>> \o sortedQueue

RECURSIVE sortByPriority(_, _)
sortByPriority(queue, rules) ==
    IF queue = <<>> THEN <<>>
    ELSE insertByPriority(
            sortByPriority(SubSeq(queue, 1, Len(queue) - 1), rules),
            queue[Len(queue)], rules)

\* rules.find((r) => r.id === id): the index of the first rule with the id,
\* 0 when there is none
FindIndex(rules, id) ==
    IF \E i \in DOMAIN rules : rules[i].id = id
    THEN CHOOSE i \in DOMAIN rules :
            /\ rules[i].id = id
            /\ \A j \in DOMAIN rules : rules[j].id = id => i <= j
    ELSE 0

\* dependents.forEach(...): st is [queue, sorted, inDegree]
RECURSIVE releaseDependents(_, _, _)
releaseDependents(st, dependents, rules) ==
    IF dependents = <<>> THEN st
    ELSE LET depId == Head(dependents)
             newDegree == DegreeOf(st.inDegree, depId) - 1
             depRule == FindIndex(rules, depId)
             queue1 == IF newDegree = 0 /\ depRule # 0
                       THEN sortByPriority(Append(st.queue, depRule), rules)
                       ELSE st.queue
         IN  releaseDependents(
                [queue |-> queue1, sorted |-> st.sorted,
                 inDegree |-> SetFn(st.inDegree, depId, newDegree)],
                Tail(dependents), rules)

\* while (queue.length > 0) { ... }
RECURSIVE kahnLoop(_, _, _)
kahnLoop(st, graph, rules) ==
    IF st.queue = <<>> THEN st.sorted
    ELSE LET i == Head(st.queue)
             id == rules[i].id
             dependents == IF id \in DOMAIN graph THEN graph[id] ELSE <<>>
         IN  kahnLoop(
                releaseDependents(
                    [queue |-> Tail(st.queue), sorted |-> Append(st.sorted, i),
                     inDegree |-> st.inDegree],
                    dependents, rules),
                graph, rules)

\* the elements of items that are not in seen, each once, in order
RECURSIVE NewItems(_, _)
NewItems(items, seen) ==
    IF items = <<>> THEN <<>>
    ELSE IF Head(items) \in Range(seen) THEN NewItems(Tail(items), seen)
    ELSE <<Head(items)>>
            \o NewItems(Tail(items), Append(seen, Head(items)))

SelectSeqIdx(n, Test(_)) ==
    LET RECURSIVE sel(_)
        sel(k) == IF k = 0 THEN <<>>
                  ELSE IF Test(k) THEN Append(sel(k - 1), k) ELSE sel(k - 1)
    IN  sel(n)

\* the sort without the final loop that adds the remaining rules
sortOrder_NoRemaining(rules) ==
    LET g == buildGraph([graph |-> <<>>, inDegree |-> <<>>], rules)
        ready(i) == DegreeOf(g.inDegree, rules[i].id) = 0
        queue == sortByPriority(SelectSeqIdx(Len(rules), ready), rules)
    IN  kahnLoop([queue |-> queue, sorted |-> <<>>,
                  inDegree |-> g.inDegree], g.graph, rules)

\* the execution order, as the sequence of indices into rules
sortOrder(rules) ==
    LET g == buildGraph([graph |-> <<>>, inDegree |-> <<>>], rules)
        ready(i) == DegreeOf(g.inDegree, rules[i].id) = 0
        queue == sortByPriority(SelectSeqIdx(Len(rules), ready), rules)
        sorted == kahnLoop([queue |-> queue, sorted |-> <<>>,
                            inDegree |-> g.inDegree], g.graph, rules)
        remaining(i) == i \notin Range(sorted)
    IN  sorted \o SelectSeqIdx(Len(rules), remaining)

sortRulesByExecutionOrder(rules) ==
    LET order == sortOrder(rules)
    IN  [k \in 1..Len(order) |-> rules[order[k]]]

(***************************************************************************)
(* RuleEngine.registerRules and evaluateAllRules.  The result carries the  *)
(* returned matched and results lists, the registry and the cache the call *)
(* leaves in the engine, and whether it raised.                             *)
(***************************************************************************)
registerRules(rules) ==
    [id \in {rules[i].id : i \in DOMAIN rules} |->
        rules[CHOOSE i \in DOMAIN rules :
                /\ rules[i].id = id
                /\ \A j \in DOMAIN rules : rules[j].id = id => j <= i]]

\* for (const rule of sortedRules) { ... }: st is
\* [matchedRuleIds, results, matchedRules, cache, thrown]
RECURSIVE evaluateLoop(_, _, _, _)

\* results.push(result)
pushResult(st, result) ==
    [st EXCEPT !.results = Append(@, [matched |-> result.matched,
                                      rule |-> result.rule,
                                      reason |-> result.reason]),
               !.cache = result.cache]

\* matchedRuleIds.add(rule.id); matchedRules.push(rule)
pushMatched(st, rule) ==
    [st EXCEPT !.matchedRuleIds = @ \cup {rule.id},
               !.matchedRules = Append(@, rule)]

\* the loop without the break on stopPropagation
loopBody_NoBreak(st, sortedRules, context, registry, result) ==
    IF result.thrown
    THEN [st EXCEPT !.cache = result.cache, !.thrown = TRUE]
    ELSE IF ~ result.matched
    THEN evaluateLoop(pushResult(st, result), Tail(sortedRules), context,
                      registry)
    ELSE evaluateLoop(pushMatched(pushResult(st, result), Head(sortedRules)),
                      Tail(sortedRules), context, registry)

loopBody(st, sortedRules, context, registry, result) ==
    IF result.thrown
    THEN [st EXCEPT !.cache = result.cache, !.thrown = TRUE]
    ELSE IF ~ result.matched
    THEN evaluateLoop(pushResult(st, result), Tail(sortedRules), context,
                      registry)
    ELSE IF Head(sortedRules).stopPropagation
    THEN pushMatched(pushResult(st, result), Head(sortedRules))
    ELSE evaluateLoop(pushMatched(pushResult(st, result), Head(sortedRules)),
                      Tail(sortedRules), context, registry)

evaluateLoop(st, sortedRules, context, registry) ==
    IF sortedRules = <<>> THEN st
    ELSE loopBody(st, sortedRules, context, registry,
                  evaluateRule(Head(sortedRules), context, st.matchedRuleIds,
                               registry, st.cache))

allRulesOutcome(registry, st) ==
    [matched |-> st.matchedRules, results |-> st.results,
     registry |-> registry, cache |-> st.cache, thrown |-> st.thrown]

\* clearCache without the clear
clearCache_Keep(cache) == cache

\* clearCache(): this.evaluationCache.clear()
clearCache(cache) == <<>>

\* evaluateAllRules on an engine whose memo cache holds the given entries:
\* registerRules replaces the registry, clearCache empties the cache
evaluateAllRulesOn(cache, rules, context) ==
    allRulesOutcome(
        registerRules(rules),
        evaluateLoop(
            [matchedRuleIds |-> {}, results |-> <<>>, matchedRules |-> <<>>,
             cache |-> clearCache(cache), thrown |-> FALSE],
            sortRulesByExecutionOrder(rules), context, registerRules(rules)))

\* evaluateAllRules on a new engine
evaluateAllRules(rules, context) == evaluateAllRulesOn(<<>>, rules, context)

(***************************************************************************)
(* Objects with optional properties.  A specification, a request, a load   *)
(* condition's value and a composition's overrides are records that may    *)
(* lack fields; reading a missing property gives undefined.                 *)
(***************************************************************************)
Field(obj, name) == IF name \in DOMAIN obj THEN obj[name] ELSE Undef

\* v.key and v[key] on a value: undefined unless v is an object with the key
Prop(v, key) == IF IsObject(v) /\ HasKey(v, key) THEN Get(v, key) ELSE Undef

\* reading a property of null or undefined raises a TypeError
PropThrows(v) == Tag(v) \in {"null", "undef"}

(***************************************************************************)
(* JSON.stringify.  A property whose value is undefined is left out, NaN   *)
(* and an undefined array element are written as null.  The properties of  *)
(* an object of the model are written in ascending key order.  The strings *)
(* of the model need no escaping.                                           *)
(***************************************************************************)
MinKey(keys) == CHOOSE k \in keys : \A l \in keys : k = l \/ StrLess(k, l, 0)

RECURSIVE SortedKeys(_)
SortedKeys(keys) ==
    IF keys = {} THEN <<>>
    ELSE <<MinKey(keys)>> \o SortedKeys(keys \ {MinKey(keys)})

RECURSIVE Join(_, _)
Join(strs, sep) ==
    IF strs = <<>> THEN ""
    ELSE IF Len(strs) = 1 THEN strs[1]
    ELSE strs[1] \o sep \o Join(Tail(strs), sep)

Quote(str) == "\"" \o str \o "\""

RECURSIVE JsonStringify(_)

\* the members of an object, for its keys in the order given
RECURSIVE JsonMembers(_, _)
JsonMembers(object, keys) ==
    IF keys = <<>> THEN ""
    ELSE Quote(Head(keys)) \o ":" \o JsonStringify(object[Head(keys)])
            \o (IF Len(keys) = 1 THEN ""
                ELSE "," \o JsonMembers(object, Tail(keys)))

JsonStringify(v) ==
    CASE Tag(v) = "str" -> Quote(Val(v))
      [] Tag(v) = "num" -> NatToStr(Val(v))
      [] Tag(v) = "bool" -> IF Val(v) THEN "true" ELSE "false"
      [] Tag(v) \in {"null", "nan", "undef"} -> "null"
      [] Tag(v) = "arr" ->
            "[" \o Join([i \in 1..Len(Val(v)) |-> JsonStringify(Val(v)[i])], ",")
                \o "]"
      [] Tag(v) = "map" ->
            "{" \o JsonMembers(Val(v),
                               SortedKeys({k \in DOMAIN Val(v) : Val(v)[k] # Undef}))
                \o "}"

(***************************************************************************)
(* RuleComposer.  The rules of the model carry every field, so a spread of *)
(* a rule sets every field; overrides set the fields they carry.  A call   *)
(* that raises gives [error |-> message].                                   *)
(***************************************************************************)
RuleFields == DOMAIN BaseRule

Error(message) == [error |-> message]
IsError(r) == "error" \in DOMAIN r

\* { ...rule, ...overrides }
WithOverrides(rule, overrides) ==
    [f \in RuleFields |-> IF f \in DOMAIN overrides THEN overrides[f] ELSE rule[f]]

\* mergeConfigs whose inherit lets the source win
mergeConfigs_SourceWins(target, source, strategy) ==
    CASE strategy = "override" -> M(Spread(source))
      [] strategy = "merge" -> deepMerge(target, source)
      [] strategy = "inherit" -> M(ObjSpread2(Spread(target), Spread(source)))
      [] OTHER -> target

\* RuleComposer.mergeConfigs
mergeConfigs(target, source, strategy) ==
    CASE strategy = "override" -> M(Spread(source))
      [] strategy = "merge" -> deepMerge(target, source)
      [] strategy = "inherit" -> M(ObjSpread2(Spread(source), Spread(target)))
      [] OTHER -> target

\* RuleComposer.extendRule, given the merged config
extended(baseRule, overrides, config) ==
    IF IsThrow(config) THEN Error("TypeError")
    ELSE [WithOverrides(baseRule, overrides) EXCEPT
            !.id = IF overrides.id # "" THEN overrides.id
                   ELSE baseRule.id \o "-extended",
            !.conditions = overrides.conditions,
            !.config = config,
            !.metadata = M(ObjSpread2(
                            ObjSpread2(Spread(baseRule.metadata),
                                       Spread(overrides.metadata)),
                            [extendedFrom |-> S(baseRule.id)]))]

extendRule(baseRule, overrides) ==
    IF IsError(overrides) THEN overrides
    ELSE extended(baseRule, overrides,
                  deepMerge(baseRule.config, overrides.config))

\* const combinedOverrides = { ...rule, ...overrides, id: rule.id, config }
combined(rule, overrides, config) ==
    IF IsThrow(config) THEN Error("TypeError")
    ELSE [WithOverrides(rule, overrides) EXCEPT !.id = rule.id,
                                                !.config = config]

combinedOverrides(rule, overrides) ==
    combined(rule, overrides,
             deepMerge(Or(rule.config, M(<<>>)),
                       Or(Field(overrides, "config"), M(<<>>))))

\* the values of a field over the rules, each once, in first-seen order
RECURSIVE collect(_, _, _)
collect(rules, field, seen) ==
    IF rules = <<>> THEN seen
    ELSE collect(Tail(rules), field,
                 seen \o NewItems(Head(rules)[field], seen))

RECURSIVE foldConfigs(_, _, _)
foldConfigs(mergedConfig, rest, strategy) ==
    IF IsThrow(mergedConfig) \/ rest = <<>> THEN mergedConfig
    ELSE foldConfigs(mergeConfigs(mergedConfig, Head(rest).config, strategy),
                     Tail(rest), strategy)

RECURSIVE flatConditions(_)
flatConditions(rules) ==
    IF rules = <<>> THEN <<>>
    ELSE Head(rules).conditions \o flatConditions(Tail(rules))

MaxOf(ns) == CHOOSE n \in ns : \A m \in ns : m <= n

composed(sourceRules, newRuleId, strategy, config) ==
    IF IsThrow(config) THEN Error("TypeError")
    ELSE [BaseRule EXCEPT
            !.id = newRuleId,
            !.name = "Composed: "
                \o Join([i \in DOMAIN sourceRules |-> sourceRules[i].name], " + "),
            !.description = "Composed from: "
                \o Join([i \in DOMAIN sourceRules |-> sourceRules[i].id], ", "),
            !.priority = MaxOf({sourceRules[i].priority : i \in DOMAIN sourceRules}),
            !.conditions = flatConditions(sourceRules),
            !.config = config,
            !.resolutionStrategy = strategy,
            !.enabled = \A i \in DOMAIN sourceRules : sourceRules[i].enabled,
            !.dependencies = collect(sourceRules, "dependencies", <<>>),
            !.exclusions = collect(sourceRules, "exclusions", <<>>),
            !.tags = collect(sourceRules, "tags", <<>>),
            !.metadata = M([composedFrom |->
                                A([i \in DOMAIN sourceRules |-> S(sourceRules[i].id)]),
                            compositionStrategy |-> S(strategy)])]

\* RuleComposer.composeRules; an undefined strategy takes the default
composeRules(sourceRules, newRuleId, strategy) ==
    IF sourceRules = <<>> THEN Error("Cannot compose empty rule set")
    ELSE composed(sourceRules, newRuleId,
                  IF strategy = "undefined" THEN "merge" ELSE strategy,
                  foldConfigs(M(Spread(Head(sourceRules).config)),
                              Tail(sourceRules),
                              IF strategy = "undefined" THEN "merge" ELSE strategy))

\* RuleComposer.applyMixin
mixed(targetRule, mixinRule, config) ==
    IF IsThrow(config) THEN Error("TypeError")
    ELSE [targetRule EXCEPT
            !.config = config,
            !.conditions = targetRule.conditions \o mixinRule.conditions,
            !.tags = targetRule.tags \o mixinRule.tags \o <<"mixed">>,
            !.metadata = M(ObjSpread2(
                            Spread(targetRule.metadata),
                            [mixins |->
                                A(Val(Or(Prop(targetRule.metadata, "mixins"), A(<<>>)))
                                    \o <<S(mixinRule.id)>>)]))]

applyMixin(targetRule, mixinRule) ==
    mixed(targetRule, mixinRule,
          mergeConfigs(targetRule.config, mixinRule.config, "merge"))

\* the loop, were an id that is not in the list an error as it is for compose
RECURSIVE mixinLoop_Strict(_, _, _)
mixinLoop_Strict(result, sourceRuleIds, allRules) ==
    IF IsError(result) \/ sourceRuleIds = <<>> THEN result
    ELSE IF FindIndex(allRules, Head(sourceRuleIds)) = 0
    THEN Error("Some source rules not found")
    ELSE mixinLoop_Strict(
            applyMixin(result,
                       allRules[FindIndex(allRules, Head(sourceRuleIds))]),
            Tail(sourceRuleIds), allRules)

\* for (const mixinId of sourceRuleIds) { ... }
RECURSIVE mixinLoop(_, _, _)
mixinLoop(result, sourceRuleIds, allRules) ==
    IF IsError(result) \/ sourceRuleIds = <<>> THEN result
    ELSE IF FindIndex(allRules, Head(sourceRuleIds)) = 0
    THEN mixinLoop(result, Tail(sourceRuleIds), allRules)
    ELSE mixinLoop(applyMixin(result,
                              allRules[FindIndex(allRules, Head(sourceRuleIds))]),
                   Tail(sourceRuleIds), allRules)

\* return { ...composed, ...overrides }
composeOutcome(composedRule, overrides) ==
    IF IsError(composedRule) THEN composedRule
    ELSE WithOverrides(composedRule, overrides)

\* RuleComposer.processComposition
processComposition(rule, allRules) ==
    CASE rule.composition.type = "extend" ->
            IF rule.composition.baseRuleId = ""
            THEN Error("baseRuleId required for extend composition")
            ELSE IF FindIndex(allRules, rule.composition.baseRuleId) = 0
            THEN Error("Base rule not found: " \o rule.composition.baseRuleId)
            ELSE extendRule(
                    allRules[FindIndex(allRules, rule.composition.baseRuleId)],
                    combinedOverrides(rule, rule.composition.overrides))
      [] rule.composition.type = "compose" ->
            IF rule.composition.sourceRuleIds = <<>>
            THEN Error("sourceRuleIds required for compose composition")
            ELSE IF \E i \in DOMAIN rule.composition.sourceRuleIds :
                        FindIndex(allRules, rule.composition.sourceRuleIds[i]) = 0
            THEN Error("Some source rules not found")
            ELSE composeOutcome(
                    composeRules(
                        [i \in DOMAIN rule.composition.sourceRuleIds |->
                            allRules[FindIndex(allRules,
                                               rule.composition.sourceRuleIds[i])]],
                        rule.id, rule.resolutionStrategy),
                    rule.composition.overrides)
      [] rule.composition.type = "mixin" ->
            IF rule.composition.sourceRuleIds = <<>>
            THEN Error("sourceRuleIds required for mixin composition")
            ELSE mixinLoop(rule, rule.composition.sourceRuleIds, allRules)
      [] OTHER -> rule

\* RuleComposer.registerTemplates
registerTemplates(registered, ruleTemplates) ==
    [id \in DOMAIN registered \cup DOMAIN ruleTemplates |->
        IF id \in DOMAIN ruleTemplates THEN ruleTemplates[id] ELSE registered[id]]

(***************************************************************************)
(* ConditionalRuleLoader.hashString.  A 32-bit word is a pair <<high,      *)
(* low>> of 16-bit halves; (hash << 5) - hash + char followed by           *)
(* hash & hash is 31 * hash + char modulo 2^32.  hashString returns the    *)
(* halves of Math.abs of the signed word.                                   *)
(***************************************************************************)
hashStep(hash, char) ==
    <<(hash[1] * 31 + ((hash[2] * 31 + char) \div 65536)) % 65536,
      (hash[2] * 31 + char) % 65536>>

RECURSIVE hashLoop(_, _, _)
hashLoop(str, i, hash) ==
    IF i >= Len(str) THEN hash
    ELSE hashLoop(str, i + 1, hashStep(hash, charCodeAt(str, i)))

\* the word as it is, without Math.abs
MathAbs_Signed(hash) == hash

\* Math.abs of the signed 32-bit word
MathAbs(hash) ==
    IF hash[1] < 32768 THEN hash
    ELSE IF hash[2] = 0 THEN <<65536 - hash[1], 0>>
    ELSE <<65535 - hash[1], 65536 - hash[2]>>

hashString(str) == MathAbs(hashLoop(str, 0, <<0, 0>>))

\* the low bits of the hash instead of hash % 100
Mod100_Wide(hash) == hash[2] % 128

\* hash % 100, for a non-negative hash of at most 2^31
Mod100(hash) == ((hash[1] % 100) * 36 + hash[2]) % 100

(***************************************************************************)
(* ConditionalRuleLoader.evaluateCustomCondition and evaluateLoadCondition *)
(***************************************************************************)
evaluateCustomCondition(contextValue, operator, value) ==
    CASE operator = S("eq") -> StrictEq(contextValue, value)
      [] operator = S("ne") -> ~ StrictEq(contextValue, value)
      [] operator = S("gt") -> Gt(contextValue, value)
      [] operator = S("lt") -> Lt(contextValue, value)
      [] operator = S("gte") -> Gte(contextValue, value)
      [] operator = S("lte") -> Lte(contextValue, value)
      [] operator = S("in") -> IsArray(value) /\ Includes(value, contextValue)
      [] operator = S("regex") -> RegExpTest(value, ToStr(contextValue))
      [] OTHER -> FALSE

LoadCond(type, value) == [type |-> type, value |-> value]

\* whether evaluateLoadCondition raises: destructuring a missing value, or
\* a regex pattern that does not compile
evaluateLoadConditionThrows(condition, context, spec) ==
    \/ /\ condition.type \in {"feature_flag", "percentage_rollout", "custom"}
       /\ PropThrows(condition.value)
    \/ /\ condition.type = "custom"
       /\ Prop(condition.value, "operator") = S("regex")
       /\ RegExpThrows(Prop(condition.value, "value"))

evaluateLoadCondition(condition, context, spec) ==
    CASE condition.type = "environment" ->
            StrictEq(Field(spec, "environment"), condition.value)
      [] condition.type = "feature_flag" ->
            StrictEq(Nullish(Prop(context.featureFlags,
                                  ToStr(Prop(condition.value, "flagName"))),
                             Prop(Field(spec, "featureFlags"),
                                  ToStr(Prop(condition.value, "flagName")))),
                     Prop(condition.value, "expectedValue"))
      [] condition.type = "percentage_rollout" ->
            /\ Truthy(context.userId)
            /\ Lte(N(Mod100(hashString(
                        ToStr(Prop(condition.value, "ruleId")) \o ":"
                            \o ToStr(context.userId))) + 1),
                   Prop(condition.value, "percentage"))
      [] condition.type = "custom" ->
            evaluateCustomCondition(
                Prop(context.customContext, ToStr(Prop(condition.value, "key"))),
                Prop(condition.value, "operator"),
                Prop(condition.value, "value"))
      [] OTHER -> FALSE

\* conditionalRule.loadConditions.every(...): "true", "false", or "throw"
\* when the first condition that does not hold raises
RECURSIVE shouldLoadRule(_, _, _, _)
shouldLoadRule(loadConditions, i, context, spec) ==
    IF i > Len(loadConditions) THEN "true"
    ELSE IF evaluateLoadConditionThrows(loadConditions[i], context, spec)
    THEN "throw"
    ELSE IF ~ evaluateLoadCondition(loadConditions[i], context, spec)
    THEN "false"
    ELSE shouldLoadRule(loadConditions, i + 1, context, spec)

(***************************************************************************)
(* ConditionalRuleLoader.generateCacheKey and loadConditionalRules.  The   *)
(* MD5 digest is taken to be free of collisions: the key is the digested   *)
(* string.  A Map of loaded rules is the sequence of its values in         *)
(* insertion order.                                                          *)
(***************************************************************************)
md5(str) == <<"md5", str>>

generateCacheKey(context, spec) ==
    md5(JsonStringify(M([userId |-> context.userId,
                         customContext |-> context.customContext,
                         featureFlags |-> context.featureFlags,
                         environment |-> context.environment,
                         specId |-> Field(spec, "id"),
                         specVersion |-> Field(spec, "version")])))

\* loadedRulesMap.set(ruleId, enabledRule), the map keyed by ruleId
MapSet(entries, ruleId, rule) ==
    IF \E i \in DOMAIN entries : entries[i].key = ruleId
    THEN [i \in DOMAIN entries |->
            IF entries[i].key = ruleId THEN [key |-> ruleId, rule |-> rule]
            ELSE entries[i]]
    ELSE Append(entries, [key |-> ruleId, rule |-> rule])

\* for (const conditionalRule of spec.conditionalRules) { ... }
RECURSIVE loadLoop(_, _, _, _, _, _)

loadStep(conditionalRules, i, context, spec, allRules, entries, should) ==
    IF should = "throw" THEN [entries |-> entries, thrown |-> TRUE]
    ELSE IF should = "true"
            /\ FindIndex(allRules, conditionalRules[i].ruleId) # 0
    THEN loadLoop(conditionalRules, i + 1, context, spec, allRules,
                  MapSet(entries, conditionalRules[i].ruleId,
                         [allRules[FindIndex(allRules, conditionalRules[i].ruleId)]
                            EXCEPT !.enabled = TRUE]))
    ELSE loadLoop(conditionalRules, i + 1, context, spec, allRules, entries)

loadLoop(conditionalRules, i, context, spec, allRules, entries) ==
    IF i > Len(conditionalRules) THEN [entries |-> entries, thrown |-> FALSE]
    ELSE loadStep(conditionalRules, i, context, spec, allRules, entries,
                  shouldLoadRule(conditionalRules[i].loadConditions, 1,
                                 context, spec))

MapValues(entries) == [i \in DOMAIN entries |-> entries[i].rule]

\* the outcome of the loop: the rules returned, the cache left, and whether
\* the call raised (nothing is cached then)
loadOutcome(cache, cacheKey, loaded) ==
    IF loaded.thrown THEN [rules |-> <<>>, cache |-> cache, thrown |-> TRUE]
    ELSE [rules |-> MapValues(loaded.entries),
          cache |-> (cacheKey :> MapValues(loaded.entries)) @@ cache,
          thrown |-> FALSE]

\* the call from the cache lookup on
loadWithKey(spec, context, allRules, cache, cacheKey) ==
    IF cacheKey \in DOMAIN cache
    THEN [rules |-> cache[cacheKey], cache |-> cache, thrown |-> FALSE]
    ELSE loadOutcome(cache, cacheKey,
                     loadLoop(spec.conditionalRules, 1, context, spec,
                              allRules, <<>>))

loadConditionalRules(spec, context, allRules, cache) ==
    IF "conditionalRules" \notin DOMAIN spec \/ spec.conditionalRules = <<>>
    THEN [rules |-> <<>>, cache |-> cache, thrown |-> FALSE]
    ELSE loadWithKey(spec, context, allRules, cache,
                     generateCacheKey(context, spec))

(***************************************************************************)
(* ConfigurationManager: the store and validateConfig.  The keys of a      *)
(* document are walked in ascending order.                                  *)
(***************************************************************************)
StoreKey(appId, version) == ToStr(appId) \o ":" \o ToStr(version)

\* this.specifications.set(key, spec), after the file is written
saveSpecification(store, spec, now) ==
    (StoreKey(spec.appId, spec.version) :> ([updatedAt |-> now] @@ spec))
        @@ store

HasSpecification(store, appId, version) ==
    StoreKey(appId, version) \in DOMAIN store

getSpecification(store, appId, version) == store[StoreKey(appId, version)]

Schema(requiredKeys, optionalKeys, deprecatedKeys) ==
    [requiredKeys |-> requiredKeys, optionalKeys |-> optionalKeys,
     deprecatedKeys |-> deprecatedKeys]

\* the messages of a check, for the keys that fail it, in order
RECURSIVE errorsFor(_, _, _)
errorsFor(keys, Fails(_), prefix) ==
    IF keys = <<>> THEN <<>>
    ELSE (IF Fails(Head(keys)) THEN <<prefix \o Head(keys)>> ELSE <<>>)
            \o errorsFor(Tail(keys), Fails, prefix)

\* the property names every object inherits from Object.prototype
ObjectPrototypeKeys ==
    {"constructor", "toString", "toLocaleString", "valueOf", "hasOwnProperty",
     "isPrototypeOf", "propertyIsEnumerable", "__proto__"}

\* key in obj: the object's own properties and the inherited ones
In(key, obj) == HasKey(obj, key) \/ key \in ObjectPrototypeKeys

validationErrors(config, schema) ==
    LET configKeys == SortedKeys(DOMAIN OwnProps(config))
        missing(key) == ~ In(key, config)
        deprecated(key) == key \in Range(schema.deprecatedKeys)
        unknown(key) ==
            key \notin Range(schema.requiredKeys) \cup Range(schema.optionalKeys)
                            \cup Range(schema.deprecatedKeys)
    IN  errorsFor(schema.requiredKeys, missing, "Missing required key: ")
            \o errorsFor(configKeys, deprecated, "Using deprecated key: ")
            \o errorsFor(configKeys, unknown, "Unknown key: ")

validateConfig(config, schema) ==
    [valid |-> validationErrors(config, schema) = <<>>,
     errors |-> validationErrors(config, schema)]

(***************************************************************************)
(* The request context of GET /config/:appId/:version.  A request carries  *)
(* its headers and query parameters as the client sent them (strings, or   *)
(* undefined when absent) and what the user-agent parser reports for its   *)
(* user agent.                                                               *)
(***************************************************************************)
\* JSON.parse, over the documents of JsonDocs: a string that is the text of
\* none of them is taken to be malformed and raises a SyntaxError
JsonDocs ==
    {M([f |-> B(TRUE)]), M([f |-> B(FALSE)]), M([k |-> S("v")]), M(<<>>)}

JsonTexts == [v \in JsonDocs |-> JsonStringify(v)]

JsonParseThrows(text) == \A v \in JsonDocs : JsonTexts[v] # Val(text)

JsonParse(text) == CHOOSE v \in JsonDocs : JsonTexts[v] = Val(text)

\* extractAppVersion: a user agent without "AppVersion/" gives "1.0.0"
extractAppVersion(ua) ==
    CASE ~ Contains(ua, "AppVersion/") -> "1.0.0"

\* GeoLocationService.lookupIP
lookupIP(ip) ==
    CASE ip = "192.168.1.1" -> M([country |-> S("US"), region |-> S("CA"),
                                  city |-> S("San Francisco")])
      [] ip = "10.0.0.1" -> M([country |-> S("GB"), region |-> S("England"),
                               city |-> S("London")])
      [] OTHER -> M([country |-> S("GB"), region |-> S("Unknown")])

\* getClientIP, for an x-forwarded-for header that names one address
getClientIP(req) ==
    ToStr(Or(req.xForwardedFor, Or(req.remoteAddress, S("127.0.0.1"))))

BaseRequest ==
    [userAgent |-> Undef, uaOs |-> Undef, uaDevice |-> Undef,
     xForwardedFor |-> Undef, remoteAddress |-> S("127.0.0.1"),
     country |-> Undef, region |-> Undef, env |-> Undef, flags |-> Undef,
     userId |-> Undef, context |-> Undef]

\* whether building the context raises (JSON.parse of flags or context)
contextThrows(req) ==
    \/ Truthy(req.flags) /\ JsonParseThrows(req.flags)
    \/ Truthy(req.context) /\ JsonParseThrows(req.context)

requestContext(req, version, now) ==
    [userAgent |-> Or(req.userAgent, S("")),
     parsedUA |-> [os |-> req.uaOs, device |-> req.uaDevice],
     appVersion |->
        Or(S(extractAppVersion(ToStr(Or(req.userAgent, S(""))))), version),
     os |-> req.uaOs,
     device |-> Or(req.uaDevice, S("Desktop")),
     geoCountry |-> Prop(lookupIP(getClientIP(req)), "country"),
     geoRegion |-> Prop(lookupIP(getClientIP(req)), "region"),
     clientProvidedGeo |-> [country |-> req.country, region |-> req.region],
     timestamp |-> N(now),
     environment |-> Or(req.env, Undef),
     featureFlags |-> IF Truthy(req.flags) THEN JsonParse(req.flags) ELSE Undef,
     userId |-> Or(req.userId, Undef),
     customContext |->
        IF Truthy(req.context) THEN JsonParse(req.context) ELSE Undef]

(***************************************************************************)
(* GET /config/:appId/:version, after the request context is built and the *)
(* specification is found.  The outcome of the handler is the response,    *)
(* the loader cache and the engine state it leaves, and its local values.  *)
(* A raised error is caught by the handler and answered with 500.           *)
(***************************************************************************)
ServerError(message) ==
    [status |-> 500, error |-> "Internal server error", message |-> message]

GetLocals(appId, version, spec, context, allRules, evaluated) ==
    [handler |-> "GET", appId |-> appId, version |-> version, spec |-> spec,
     context |-> context, allRules |-> allRules, evaluated |-> evaluated]

Outcome(resp, cache, registry, evalCache, loc) ==
    [response |-> resp, loadedRulesCache |-> cache, ruleRegistry |-> registry,
     evaluationCache |-> evalCache, locals |-> loc]

\* spec.rules.map((rule) => ruleComposer.processComposition(rule, spec.rules))
processedRules(spec) ==
    [i \in DOMAIN spec.rules |-> processComposition(spec.rules[i], spec.rules)]

\* the message of the first rule whose composition raises
firstError(processed) ==
    processed[CHOOSE i \in DOMAIN processed :
                /\ IsError(processed[i])
                /\ \A j \in 1..(i - 1) : ~ IsError(processed[j])].error

\* const allRules = [...baseRules, ...conditionalRules]
combineRules(processed, conditionalRules) ==
    SelectSeq(processed,
              LAMBDA r : \A i \in DOMAIN conditionalRules :
                            conditionalRules[i].id # r.id)
        \o conditionalRules

OkResponse(appId, version, spec, context, matched, finalConfig) ==
    [status |-> 200, appId |-> appId, version |-> version,
     config |-> finalConfig,
     matchedRules |-> [i \in DOMAIN matched |->
                        [id |-> matched[i].id, name |-> matched[i].name,
                         priority |-> matched[i].priority]],
     validation |-> validateConfig(finalConfig, spec.schema),
     context |-> [os |-> context.os, device |-> context.device,
                  geoCountry |-> context.geoCountry,
                  geoRegion |-> context.geoRegion]]

configured(appId, version, spec, context, cache, allRules, ev, finalConfig) ==
    Outcome(IF IsThrow(finalConfig) THEN ServerError("TypeError")
            ELSE OkResponse(appId, version, spec, context, ev.matched,
                            finalConfig),
            cache, ev.registry, ev.cache,
            GetLocals(appId, version, spec, context, allRules, TRUE))

evaluated(appId, version, spec, context, cache, allRules, ev) ==
    IF ev.thrown
    THEN Outcome(ServerError("SyntaxError"), cache, ev.registry, ev.cache,
                 GetLocals(appId, version, spec, context, allRules, TRUE))
    ELSE configured(appId, version, spec, context, cache, allRules, ev,
                    resolveConfig(spec.defaultConfig, ev.matched))

combinedRules(appId, version, spec, context, cache, engine, allRules) ==
    evaluated(appId, version, spec, context, cache, allRules,
              evaluateAllRulesOn(engine.cache, allRules, context))

loaded(appId, version, spec, context, engine, processed, load) ==
    IF load.thrown
    THEN Outcome(ServerError("TypeError"), load.cache, engine.registry,
                 engine.cache, GetLocals(appId, version, spec, context, <<>>, FALSE))
    ELSE combinedRules(appId, version, spec, context, load.cache, engine,
                       combineRules(processed, load.rules))

processed(appId, version, spec, context, cache, engine, rules) ==
    IF \E i \in DOMAIN rules : IsError(rules[i])
    THEN Outcome(ServerError(firstError(rules)), cache, engine.registry,
                 engine.cache, GetLocals(appId, version, spec, context, <<>>, FALSE))
    ELSE loaded(appId, version, spec, context, engine, rules,
                loadConditionalRules(spec, context, rules, cache))

\* the handler from "Process rule compositions" on
resolve(appId, version, spec, context, cache, engine) ==
    processed(appId, version, spec, context, cache, engine,
              processedRules(spec))

(***************************************************************************)
(* Function-level specifications of evaluateAllRules.  The rule at         *)
(* position i of the list has the i-th id of RuleIds, so ids are unique    *)
(* and a constraint may name a rule before it, after it, itself, or (in a   *)
(* shorter list) a rule that is not there.                                  *)
(***************************************************************************)
MaxPriority == 1
RuleIds == <<"x", "y", "z">>
IdSet == Range(RuleIds)

IosContext == [BaseContext EXCEPT !.os = S("iOS")]
IsIos == Cond("os", "eq", S("iOS"))
IsAndroid == Cond("os", "eq", S("Android"))

EvaluateAllRulesCall ==
    /\ call[1] = "evaluateAllRules"
    /\ ret = Pending
    /\ \E r \in {evaluateAllRulesOn(evaluationCache, call[2], call[3])} :
          /\ ret' = <<"done", [matched |-> r.matched, results |-> r.results,
                               thrown |-> r.thrown]>>
          /\ ruleRegistry' = r.registry
          /\ evaluationCache' = r.cache
    /\ UNCHANGED <<call, serverVars>>

\* ordering: every rule matches; priorities and ordering constraints vary,
\* a constraint may be stated twice
AfterOptions(i) ==
    LET others == IdSet \ {RuleIds[i]}
    IN  {<<>>} \cup {<<a>> : a \in others} \cup {<<a, a>> : a \in others}

SortRules(i) ==
    {[BaseRule EXCEPT !.id = RuleIds[i], !.name = RuleIds[i], !.priority = p,
                      !.executeAfter = ea, !.executeBefore = eb] :
        p \in 0..MaxPriority, ea \in AfterOptions(i),
        eb \in {<<>>} \cup {<<a>> : a \in IdSet \ {RuleIds[i]}}}

\* the lists of n rules, the i-th drawn from SortRules(i)
RECURSIVE SortLists(_)
SortLists(n) ==
    IF n = 0 THEN {<<>>}
    ELSE {Append(rs, r) : rs \in SortLists(n - 1), r \in SortRules(n)}

SortInit ==
    /\ \E n \in 0..Len(RuleIds) :
          call \in {<<"evaluateAllRules", rs, IosContext>> : rs \in SortLists(n)}
    /\ ret = Pending
    /\ EngineInit

SortNext == EvaluateAllRulesCall

SpecSort == SortInit /\ [][SortNext]_vars

\* matching: enabled flags, conditions, dependencies, exclusions and
\* stopPropagation vary; priorities are equal, so the rules are evaluated in
\* input order
EvalRules(i) ==
    {[BaseRule EXCEPT !.id = RuleIds[i], !.name = RuleIds[i],
                      !.enabled = oc[1], !.conditions = oc[2],
                      !.dependencies = de[1], !.exclusions = de[2],
                      !.stopPropagation = sp] :
        oc \in {<<TRUE, <<IsIos>>>>, <<TRUE, <<IsAndroid>>>>, <<FALSE, <<>>>>},
        de \in {<<<<>>, <<>>>>}
                \cup {<<<<a>>, <<>>>> : a \in IdSet \ {RuleIds[i]}}
                \cup {<<<<>>, <<a>>>> : a \in IdSet \ {RuleIds[i]}},
        sp \in BOOLEAN}

RECURSIVE EvalLists(_)
EvalLists(n) ==
    IF n = 0 THEN {<<>>}
    ELSE {Append(rs, r) : rs \in EvalLists(n - 1), r \in EvalRules(n)}

EvalInit ==
    /\ \E n \in 0..Len(RuleIds) :
          call \in {<<"evaluateAllRules", rs, IosContext>> : rs \in EvalLists(n)}
    /\ ret = Pending
    /\ EngineInit

EvalNext == EvaluateAllRulesCall

SpecEval == EvalInit /\ [][EvalNext]_vars

(***************************************************************************)
(* The server: POST /config, PUT and GET /config/:appId/:version over a    *)
(* small universe of request bodies, updates and requests.  Rule "a" is    *)
(* stored disabled and referenced by a conditionalRules entry; rule "b"    *)
(* matches a client in the US; rule "m" mixes "b" in.  A write takes the   *)
(* time of day from the clock, which it advances; at most MaxWrites writes *)
(* are made.                                                                 *)
(***************************************************************************)
MaxWrites == 2

toISOString(now) == S("T" \o NatToStr(now))

RuleA == [BaseRule EXCEPT !.id = "a", !.name = "a", !.enabled = FALSE,
                          !.config = M([a |-> S("s")])]
RuleA2 == [RuleA EXCEPT !.config = M([a |-> Nul])]
RuleB == [BaseRule EXCEPT !.id = "b", !.name = "b", !.priority = 1,
                          !.conditions = <<Cond("geo_country", "eq", S("US"))>>,
                          !.config = M(("0" :> S("s")))]
RuleM == [BaseRule EXCEPT !.id = "m", !.name = "m",
                          !.composition =
                            [type |-> "mixin", baseRuleId |-> "",
                             sourceRuleIds |-> <<"b">>, overrides |-> <<>>]]

OpenSchema == Schema(<<>>, <<"a", "0">>, <<>>)

FlagGate ==
    [ruleId |-> "a",
     loadConditions |->
        <<LoadCond("feature_flag",
                   M([flagName |-> S("f"), expectedValue |-> B(TRUE)]))>>]
EnvGate ==
    [ruleId |-> "a",
     loadConditions |-> <<LoadCond("environment", S("production"))>>]

\* rule b, stored enabled, behind a feature flag
FlagGateB == [FlagGate EXCEPT !.ruleId = "b"]

AppIds == {"app", "web"}
Versions == {"1.0.0"}

Bodies ==
    UNION {{
        \* rule a behind a feature flag
        [id |-> S("s"), appId |-> S(appId), version |-> S("1.0.0"),
         schema |-> OpenSchema, defaultConfig |-> M(<<>>),
         rules |-> <<RuleA, RuleB>>, conditionalRules |-> <<FlagGate>>,
         featureFlags |-> M([f |-> B(FALSE)])],
        \* rule a, with another config, behind the environment
        [id |-> S("s"), appId |-> S(appId), version |-> S("1.0.0"),
         schema |-> OpenSchema, defaultConfig |-> M(<<>>),
         rules |-> <<RuleA2>>, conditionalRules |-> <<EnvGate>>,
         environment |-> S("production")],
        \* rule b, stored enabled, behind a feature flag nobody sets
        [id |-> S("u"), appId |-> S(appId), version |-> S("1.0.0"),
         schema |-> OpenSchema, defaultConfig |-> M(<<>>),
         rules |-> <<RuleB>>, conditionalRules |-> <<FlagGateB>>],
        \* no conditional rules
        [id |-> S("t"), appId |-> S(appId), version |-> S("1.0.0"),
         schema |-> OpenSchema, defaultConfig |-> M([a |-> Nul]),
         rules |-> <<RuleB, RuleM>>],
        \* no schema
        [id |-> S("t"), appId |-> S(appId), version |-> S("1.0.0"),
         defaultConfig |-> M(<<>>)],
        \* a default config with a key the schema does not know
        [id |-> S("t"), appId |-> S(appId), version |-> S("1.0.0"),
         schema |-> OpenSchema, defaultConfig |-> M([z |-> N(1)])]
    } : appId \in AppIds}

Updates ==
    { [conditionalRules |-> <<EnvGate>>, environment |-> S("production")],
      [defaultConfig |-> M([z |-> N(1)])],
      [schema |-> Schema(<<"q">>, <<>>, <<>>)],
      [appId |-> S("zz"), id |-> S("zz"), createdAt |-> S("never"),
       defaultConfig |-> M([a |-> S("s")]), rules |-> <<RuleB>>] }

Requests ==
    { BaseRequest,
      [BaseRequest EXCEPT !.flags = S("{\"f\":true}")],
      [BaseRequest EXCEPT !.flags = S("{bad")],
      [BaseRequest EXCEPT !.country = S("US")] }

ServerInit ==
    /\ call = <<"server">>
    /\ ret = Pending
    /\ EngineInit

\* POST /config
PostHandler(body) ==
    /\ call[1] = "server"
    /\ IF \/ ~ Truthy(Field(body, "appId"))
          \/ ~ Truthy(Field(body, "version"))
          \/ "schema" \notin DOMAIN body
          \/ ~ Truthy(Field(body, "defaultConfig"))
       THEN /\ response' = [status |-> 400,
                            error |-> "Missing required fields"]
            /\ UNCHANGED <<specifications, clock>>
       ELSE IF ~ validateConfig(body.defaultConfig, body.schema).valid
       THEN /\ response' =
                [status |-> 400, error |-> "Invalid default configuration",
                 errors |-> validateConfig(body.defaultConfig,
                                           body.schema).errors]
            /\ UNCHANGED <<specifications, clock>>
       ELSE /\ clock < MaxWrites
            /\ clock' = clock + 1
            /\ specifications' =
                saveSpecification(
                    specifications,
                    [createdAt |-> toISOString(clock'),
                     updatedAt |-> toISOString(clock'),
                     rules |-> IF "rules" \in DOMAIN body
                               THEN body.rules ELSE <<>>,
                     conditionalRules |->
                        IF "conditionalRules" \in DOMAIN body
                        THEN body.conditionalRules ELSE <<>>] @@ body,
                    toISOString(clock'))
            /\ response' =
                [status |-> 201,
                 message |-> "Configuration created successfully",
                 spec |-> [id |-> Field(body, "id"), appId |-> body.appId,
                           version |-> body.version]]
    /\ locals' = [handler |-> "POST"]
    /\ UNCHANGED <<call, ret, engineVars, loadedRulesCache, templates>>

PostConfig == \E body \in Bodies : PostHandler(body)

\* const updatedSpec = { ...existingSpec, ...updates, appId, version, id, createdAt }
updatedSpec(existingSpec, updates, appId, version) ==
    [appId |-> S(appId), version |-> S(version),
     id |-> Field(existingSpec, "id"),
     createdAt |-> Field(existingSpec, "createdAt")] @@ updates @@ existingSpec

\* PUT /config/:appId/:version
PutHandler(appId, version, updates) ==
    /\ call[1] = "server"
    /\ IF ~ HasSpecification(specifications, S(appId), S(version))
       THEN /\ response' = [status |-> 404,
                            error |-> "Configuration not found"]
            /\ UNCHANGED <<specifications, clock>>
       ELSE \E spec \in {updatedSpec(getSpecification(specifications,
                                                       S(appId), S(version)),
                                      updates, appId, version)} :
            IF /\ Truthy(Field(updates, "defaultConfig"))
               /\ ~ validateConfig(spec.defaultConfig, spec.schema).valid
            THEN /\ response' =
                    [status |-> 400, error |-> "Invalid configuration",
                     errors |-> validateConfig(spec.defaultConfig,
                                               spec.schema).errors]
                 /\ UNCHANGED <<specifications, clock>>
            ELSE /\ clock < MaxWrites
                 /\ clock' = clock + 1
                 /\ specifications' =
                        saveSpecification(specifications, spec,
                                          toISOString(clock'))
                 /\ response' =
                        [status |-> 200,
                         message |-> "Configuration updated successfully",
                         spec |-> [id |-> spec.id, appId |-> spec.appId,
                                   version |-> spec.version,
                                   updatedAt |-> toISOString(clock')]]
    /\ locals' = [handler |-> "PUT", appId |-> appId, version |-> version,
                  updates |-> updates]
    /\ UNCHANGED <<call, ret, engineVars, loadedRulesCache, templates>>

PutConfig ==
    \E appId \in AppIds, version \in Versions, updates \in Updates :
        PutHandler(appId, version, updates)

\* GET /config/:appId/:version, from the return of the geolocation lookup on
GetContinuation(appId, version, req) ==
    /\ call[1] = "server"
    /\ IF contextThrows(req)
       THEN /\ response' = ServerError("SyntaxError")
            /\ locals' = [handler |-> "GET", req |-> req]
            /\ UNCHANGED <<engineVars, loadedRulesCache, templates>>
       ELSE IF ~ HasSpecification(specifications, S(appId), S(version))
       THEN /\ response' =
                [status |-> 404, error |-> "Configuration not found",
                 appId |-> appId, version |-> version]
            /\ locals' = [handler |-> "GET", req |-> req]
            /\ UNCHANGED <<engineVars, loadedRulesCache, templates>>
       ELSE \E spec \in {getSpecification(specifications, S(appId),
                                           S(version))} :
            \E o \in {resolve(appId, version, spec,
                              requestContext(req, S(version), clock),
                              loadedRulesCache,
                              [registry |-> ruleRegistry,
                               cache |-> evaluationCache])} :
                /\ templates' =
                    IF "ruleTemplates" \in DOMAIN spec
                    THEN registerTemplates(templates, spec.ruleTemplates)
                    ELSE templates
                /\ response' = o.response
                /\ loadedRulesCache' = o.loadedRulesCache
                /\ ruleRegistry' = o.ruleRegistry
                /\ evaluationCache' = o.evaluationCache
                /\ locals' = [req |-> req] @@ o.locals
    /\ UNCHANGED <<specifications, clock>>

\* GET /config/:appId/:version, served without another request in between
GetHandler(appId, version, req) ==
    GetContinuation(appId, version, req) /\ UNCHANGED <<call, ret>>

GetConfig ==
    \E appId \in AppIds, version \in Versions, req \in Requests :
        GetHandler(appId, version, req)

\* DELETE /config/:appId/:version: the handler looks the specification up
\* and acknowledges the request
DeleteConfig ==
    \E appId \in AppIds, version \in Versions :
        /\ call[1] = "server"
        /\ response' =
                IF ~ HasSpecification(specifications, S(appId), S(version))
                THEN [status |-> 404, error |-> "Configuration not found"]
                ELSE [status |-> 200,
                      message |-> "Configuration deleted successfully",
                      deleted |-> [appId |-> appId, version |-> version]]
        /\ locals' = [handler |-> "DELETE", appId |-> appId,
                      version |-> version]
        /\ UNCHANGED <<call, ret, engineVars, specifications, clock,
                       loadedRulesCache, templates>>

Next == PostConfig \/ PutConfig \/ GetConfig \/ DeleteConfig

Spec == ServerInit /\ [][Next]_vars

(***************************************************************************)
(* Properties of the evaluation order.  When the call has returned, the    *)
(* results list holds one entry per evaluated rule, in evaluation order.   *)
(***************************************************************************)
EvalDone == call[1] = "evaluateAllRules" /\ ret # Pending

\* the position of the rule with the given id in a results list
PosIn(results, id) == CHOOSE k \in DOMAIN results : results[k].rule.id = id

\* <<y, x>>: y is to be evaluated before x (x.executeAfter has y, or
\* y.executeBefore has x), both in the list
ConstraintEdges(rules) ==
    {e \in {rules[i].id : i \in DOMAIN rules} \X {rules[i].id : i \in DOMAIN rules} :
        \E i, j \in DOMAIN rules :
            /\ rules[j].id = e[1]
            /\ rules[i].id = e[2]
            /\ \/ e[1] \in Range(rules[i].executeAfter)
               \/ e[2] \in Range(rules[j].executeBefore)}

RECURSIVE Closure(_, _)
Closure(E, n) ==
    IF n = 0 THEN E
    ELSE Closure(E \cup {<<e[1], f[2]>> :
                            <<e, f>> \in {p \in E \X E : p[1][2] = p[2][1]}},
                 n - 1)

Acyclic(rules) ==
    \A e \in Closure(ConstraintEdges(rules), Len(rules)) : e[1] # e[2]

\* C2: for every list with unique ids and acyclic constraints, a rule is
\* evaluated after each rule it is constrained to follow, also when the
\* constraint is stated more than once and other rules are ordered after it
C2_OrderingRespected ==
    (EvalDone /\ Acyclic(call[2])) =>
        \A e \in ConstraintEdges(call[2]) :
            /\ PosIn(ret[2].results, e[1]) < PosIn(ret[2].results, e[2])
            /\ \E k, l \in DOMAIN ret[2].matched :
                    /\ k < l
                    /\ ret[2].matched[k].id = e[1]
                    /\ ret[2].matched[l].id = e[2]

\* a rule that declares no ordering constraint and is named by none
Unconstrained(rules, i) ==
    /\ rules[i].executeAfter = <<>>
    /\ rules[i].executeBefore = <<>>
    /\ \A j \in DOMAIN rules :
            rules[i].id \notin Range(rules[j].executeAfter)
                                \cup Range(rules[j].executeBefore)

\* C6: the rules that take part in no ordering constraint are evaluated in
\* non-increasing priority order, rules of equal priority in input order
C6_PriorityOrder ==
    EvalDone =>
        \A i, j \in DOMAIN call[2] :
            (i < j /\ Unconstrained(call[2], i) /\ Unconstrained(call[2], j)) =>
                IF call[2][i].priority >= call[2][j].priority
                THEN PosIn(ret[2].results, call[2][i].id)
                        < PosIn(ret[2].results, call[2][j].id)
                ELSE PosIn(ret[2].results, call[2][j].id)
                        < PosIn(ret[2].results, call[2][i].id)

\* two unconstrained rules of equal priority keep their input order behind
\* a later one of higher priority and ahead of a constrained rule
C6_Witness ==
    /\ EvalDone
    /\ Len(call[2]) = 3
    /\ Unconstrained(call[2], 1) /\ Unconstrained(call[2], 2)
    /\ Unconstrained(call[2], 3)
    /\ call[2][1].priority = call[2][2].priority
    /\ call[2][3].priority > call[2][1].priority
    /\ [k \in 1..3 |-> ret[2].results[k].rule.id] = <<"z", "x", "y">>

(***************************************************************************)
(* Properties of matching: stopPropagation, exclusions, dependencies.      *)
(***************************************************************************)
\* the ids of the matched rules before position k of the matched list
MatchedBefore(matched, k) == {matched[j].id : j \in 1..(k - 1)}

\* C3: the rules evaluated are a prefix of the evaluation order; a rule that
\* matches and has stopPropagation is the last element of the results and
\* of the matched list; when no such rule is evaluated every rule is
\* evaluated (a stopPropagation rule that does not match stops nothing)
C3_StopPropagation ==
    EvalDone =>
        LET results == ret[2].results
            matched == ret[2].matched
            sorted == sortRulesByExecutionOrder(call[2])
            stops(k) == results[k].matched /\ results[k].rule.stopPropagation
        IN  /\ Len(results) <= Len(sorted)
            /\ \A k \in DOMAIN results : results[k].rule = sorted[k]
            /\ \A k \in DOMAIN matched :
                    \E l \in DOMAIN results :
                        results[l].matched /\ results[l].rule = matched[k]
            /\ \A k \in DOMAIN results :
                    stops(k) => /\ k = Len(results)
                                /\ matched # <<>>
                                /\ matched[Len(matched)] = results[k].rule
            /\ (\A k \in DOMAIN results : ~ stops(k)) =>
                    Len(results) = Len(sorted)

\* an enabled stopPropagation rule whose conditions fail is followed by a
\* matching stopPropagation rule, and the third rule is not evaluated
C3_Witness ==
    /\ EvalDone
    /\ Len(call[2]) = 3
    /\ Len(ret[2].results) = 2
    /\ ret[2].results[1].rule.stopPropagation
    /\ ret[2].results[1].reason = "Conditions not met"
    /\ ret[2].results[2].matched
    /\ ret[2].results[2].rule.stopPropagation
    /\ Len(ret[2].matched) = 1

\* x.exclusions has y and y, evaluated before x, matched
ExcludedAt(results, k, l) ==
    /\ k < l
    /\ results[k].matched
    /\ results[k].rule.id \in Range(results[l].rule.exclusions)

\* x.exclusions has y, x was evaluated before y, and both matched: both are
\* in the matched list, x first
BothAppear(results, matched) ==
    \A k, l \in DOMAIN results :
        (/\ k < l
         /\ results[l].rule.id \in Range(results[k].rule.exclusions)
         /\ results[k].matched
         /\ results[l].matched) =>
            \E i, j \in DOMAIN matched :
                /\ i < j
                /\ matched[i] = results[k].rule
                /\ matched[j] = results[l].rule

\* C4 as stated: when x.exclusions has y and y is evaluated before x and
\* matches, x does not match and its reason is "Excluded by another rule";
\* when x is evaluated first and matches, it stays matched when y matches
C4_ExclusionAsStated ==
    EvalDone =>
        /\ \A k, l \in DOMAIN ret[2].results :
                ExcludedAt(ret[2].results, k, l) =>
                    /\ ~ ret[2].results[l].matched
                    /\ ret[2].results[l].reason = "Excluded by another rule"
        /\ BothAppear(ret[2].results, ret[2].matched)

\* C4, amended: x does not match; its reason is "Excluded by another rule"
\* when x is enabled (a disabled x is reported as "Rule disabled"); when x
\* is evaluated first and matches, it stays matched when y matches
C4_ExclusionAsymmetry ==
    EvalDone =>
        /\ \A k, l \in DOMAIN ret[2].results :
                ExcludedAt(ret[2].results, k, l) =>
                    /\ ~ ret[2].results[l].matched
                    /\ ret[2].results[l].rule.enabled =>
                        ret[2].results[l].reason = "Excluded by another rule"
                    /\ ~ ret[2].results[l].rule.enabled =>
                        ret[2].results[l].reason = "Rule disabled"
        /\ BothAppear(ret[2].results, ret[2].matched)

\* x excludes y and matches before y, which matches too; z, enabled with
\* conditions that hold, excludes a matched rule and is excluded
C4_Witness ==
    /\ EvalDone
    /\ Len(ret[2].results) = 3
    /\ ret[2].results[1].rule.exclusions = <<ret[2].results[2].rule.id>>
    /\ [k \in 1..Len(ret[2].matched) |-> ret[2].matched[k].id] = <<"x", "y">>
    /\ ret[2].results[3].rule.enabled
    /\ ret[2].results[3].rule.conditions = <<IsIos>>
    /\ ExcludedAt(ret[2].results, 2, 3)
    /\ ret[2].results[3].reason = "Excluded by another rule"

\* C5: every dependency of a matched rule belongs to a rule earlier in the
\* matched list, and no exclusion of it does; so a rule whose dependency is
\* evaluated after it, or is not in the list, does not match
C5_MatchedInvariant ==
    EvalDone =>
        /\ \A k \in DOMAIN ret[2].matched :
                /\ Range(ret[2].matched[k].dependencies)
                        \subseteq MatchedBefore(ret[2].matched, k)
                /\ Range(ret[2].matched[k].exclusions)
                        \cap MatchedBefore(ret[2].matched, k) = {}
        /\ \A k \in DOMAIN ret[2].results :
                (\E d \in Range(ret[2].results[k].rule.dependencies) :
                    \A j \in 1..(k - 1) : ret[2].results[j].rule.id # d)
                    => ~ ret[2].results[k].matched

\* the first rule depends on the second and misses it; the second matches;
\* the third depends on the second and matches
C5_Witness ==
    /\ EvalDone
    /\ Len(ret[2].results) = 3
    /\ ret[2].results[1].rule.dependencies = <<"y">>
    /\ ret[2].results[1].reason = "Missing dependencies"
    /\ ret[2].results[2].rule.id = "y"
    /\ ret[2].results[2].matched
    /\ ret[2].results[3].rule.dependencies = <<"y">>
    /\ ret[2].results[3].matched

(***************************************************************************)
(* Properties of the resolve request.                                       *)
(***************************************************************************)
\* a resolve request found its specification and built its context
Resolved == locals.handler = "GET" /\ "spec" \in DOMAIN locals

\* the response of a server that has served no request before this one
FreshResponse ==
    resolve(locals.appId, locals.version, locals.spec, locals.context, <<>>,
            [registry |-> <<>>, cache |-> <<>>]).response

\* C1: the response to a resolve of a stored specification S with context
\* C (config, matchedRules, validation) is determined by S and C: it is the
\* response a server gives that served no other request before, so any two
\* resolves of S with C agree whatever requests were served before them
C1_Determinism == Resolved => response = FreshResponse

\* the conditionalRules entries whose load conditions all hold and whose
\* rule is among the specification's rules
GatesOpen ==
    {i \in DOMAIN locals.spec.conditionalRules :
        /\ shouldLoadRule(locals.spec.conditionalRules[i].loadConditions, 1,
                          locals.context, locals.spec) = "true"
        /\ \E j \in DOMAIN locals.spec.rules :
                locals.spec.rules[j].id = locals.spec.conditionalRules[i].ruleId}

\* C10: each rule referenced by a conditionalRules entry whose load
\* conditions hold is in the evaluation set once, with enabled = true
C10_EnableByGate ==
    (Resolved /\ locals.evaluated) =>
        \A i \in GatesOpen :
            /\ Cardinality({k \in DOMAIN locals.allRules :
                    locals.allRules[k].id
                        = locals.spec.conditionalRules[i].ruleId}) = 1
            /\ \A k \in DOMAIN locals.allRules :
                    locals.allRules[k].id = locals.spec.conditionalRules[i].ruleId
                        => locals.allRules[k].enabled

\* the conditionalRules entries of the resolved specification whose load
\* conditions do not all hold for the request
GatesClosed ==
    {i \in DOMAIN locals.spec.conditionalRules :
        shouldLoadRule(locals.spec.conditionalRules[i].loadConditions, 1,
                       locals.context, locals.spec) = "false"}

\* C11: a rule referenced by a conditionalRules entry whose load conditions
\* do not all hold is not among the matchedRules of the response (from which
\* config is folded), whatever its stored enabled flag
C11_DisabledByGate ==
    (Resolved /\ response.status = 200) =>
        \A i \in GatesClosed :
            \A k \in DOMAIN response.matchedRules :
                response.matchedRules[k].id
                    # locals.spec.conditionalRules[i].ruleId

(***************************************************************************)
(* The conditional loader on its own: a sequence of loadConditionalRules   *)
(* calls on one ConditionalRuleLoader, whose cache lives as long as the    *)
(* loader.  The specifications are the request bodies above, the contexts  *)
(* the ones the requests above build.                                       *)
(***************************************************************************)
LoaderSpecs == Bodies

LoaderContexts ==
    {requestContext(req, S("1.0.0"), 0) :
        req \in {r \in Requests : ~ contextThrows(r)}}

LoaderRules(spec) == IF "rules" \in DOMAIN spec THEN spec.rules ELSE <<>>

LoaderInit ==
    /\ call = <<"loadConditionalRules">>
    /\ ret = Pending
    /\ EngineInit

LoadConditionalRulesCall ==
    \E spec \in LoaderSpecs, context \in LoaderContexts :
        \E r \in {loadConditionalRules(spec, context, LoaderRules(spec),
                                       loadedRulesCache)} :
            /\ call[1] = "loadConditionalRules"
            /\ call' = <<"loadConditionalRules", spec, context,
                         LoaderRules(spec)>>
            /\ ret' = <<"done", [rules |-> r.rules, thrown |-> r.thrown]>>
            /\ loadedRulesCache' = r.cache
            /\ UNCHANGED <<engineVars, specifications, templates, clock,
                           response, locals>>

LoaderNext == LoadConditionalRulesCall

SpecLoader == LoaderInit /\ [][LoaderNext]_vars

LoaderDone == call[1] = "loadConditionalRules" /\ ret # Pending

\* C12: every loadConditionalRules call returns the rules a loader with an
\* empty cache returns for the same specification, context and rule list
C12_CacheTransparent ==
    LoaderDone =>
        ret[2].rules
            = loadConditionalRules(call[2], call[3], call[4], <<>>).rules

(***************************************************************************)
(* evaluateLoadCondition on its own: one call on a load condition, a       *)
(* context and a specification.  "b:mcfqjq" is a string whose hash wraps   *)
(* to -2^31.                                                                 *)
(***************************************************************************)
RolloutRuleIds == {"b", "beta"}
UserIds == {Undef, S(""), S("u1"), S("mcfqjq"), S("user055")}
Percentages == {0, 25, 48, 49, 51, 100}

Rollout(ruleId, percentage) ==
    LoadCond("percentage_rollout",
             M([percentage |-> N(percentage), ruleId |-> S(ruleId)]))

FlagCond(expectedValue) ==
    LoadCond("feature_flag",
             M([flagName |-> S("f"), expectedValue |-> expectedValue]))

CustomCond(operator, value) ==
    LoadCond("custom",
             M([key |-> S("k"), operator |-> operator, value |-> value]))

\* the flags of a request, and of a specification (<<>>: no such property)
RequestFlags ==
    {Undef, M(<<>>), M([f |-> B(TRUE)]), M([f |-> B(FALSE)]), M([f |-> Nul])}
SpecFlags == {<<>>, [featureFlags |-> M(<<>>)],
              [featureFlags |-> M([f |-> B(TRUE)])],
              [featureFlags |-> M([f |-> B(FALSE)])]}

CustomConds ==
    {CustomCond(S("eq"), S("v")), CustomCond(S("ne"), S("v")),
     CustomCond(S("in"), A(<<S("v")>>)), CustomCond(S("regex"), S("v")),
     CustomCond(S("regex"), S("(")), CustomCond(S("regex"), S("[")),
     CustomCond(S("like"), S("v")), CustomCond(Undef, S("v")),
     LoadCond("custom", Undef)}
CustomContexts == {Undef, M(<<>>), M([k |-> S("v")]), M([k |-> S("w")])}

\* <<condition, context, spec>>
LoadConditionCalls ==
    {<<Rollout(ruleId, percentage), [context EXCEPT !.userId = userId],
       <<>>>> :
        ruleId \in RolloutRuleIds, percentage \in Percentages,
        userId \in UserIds, context \in {BaseContext, IosContext}}
    \cup {<<FlagCond(expectedValue), [BaseContext EXCEPT !.featureFlags = flags],
            spec>> :
        expectedValue \in {B(TRUE), B(FALSE)}, flags \in RequestFlags,
        spec \in SpecFlags}
    \cup {<<condition, [BaseContext EXCEPT !.customContext = custom], <<>>>> :
        condition \in CustomConds, custom \in CustomContexts}
    \cup {<<LoadCond(type, S("production")), BaseContext, spec>> :
        type \in {"environment", "geo"},
        spec \in {<<>>, [environment |-> S("production")],
                  [environment |-> S("staging")]}}

LoadConditionInit ==
    /\ \E c \in LoadConditionCalls :
            call = <<"evaluateLoadCondition", c[1], c[2], c[3]>>
    /\ ret = Pending
    /\ EngineInit

EvaluateLoadConditionCall ==
    /\ call[1] = "evaluateLoadCondition"
    /\ ret = Pending
    /\ ret' = IF evaluateLoadConditionThrows(call[2], call[3], call[4])
              THEN <<"throw">>
              ELSE <<"done", evaluateLoadCondition(call[2], call[3], call[4])>>
    /\ UNCHANGED <<call, engineVars, serverVars>>

LoadConditionNext == EvaluateLoadConditionCall

SpecLoadCondition == LoadConditionInit /\ [][LoadConditionNext]_vars

LoadConditionDone == call[1] = "evaluateLoadCondition" /\ ret # Pending

(***************************************************************************)
(* The rollout hash as the specification words it, on words of four bytes  *)
(* (least significant byte first): start at 0; for each character c,       *)
(* h = (h << 5) - h + c with 32-bit wrap-around; return the absolute       *)
(* value.                                                                    *)
(***************************************************************************)
RefWord(n) == <<n, 0, 0, 0>>

\* the carry into byte i + 1 of x + y
RECURSIVE RefCarry(_, _, _)
RefCarry(x, y, i) ==
    IF i = 0 THEN 0 ELSE (x[i] + y[i] + RefCarry(x, y, i - 1)) \div 256

\* x + y, dropping the carry out of the word
RefAdd(x, y) ==
    <<(x[1] + y[1]) % 256,
      (x[2] + y[2] + RefCarry(x, y, 1)) % 256,
      (x[3] + y[3] + RefCarry(x, y, 2)) % 256,
      (x[4] + y[4] + RefCarry(x, y, 3)) % 256>>

\* two's complement
RefNeg(x) ==
    RefAdd(<<255 - x[1], 255 - x[2], 255 - x[3], 255 - x[4]>>, RefWord(1))

\* x << 5: the three high bits of a byte move into the next byte
RefShl5(x) ==
    <<(x[1] * 32) % 256,
      ((x[2] * 32) % 256) + (x[1] \div 8),
      ((x[3] * 32) % 256) + (x[2] \div 8),
      ((x[4] * 32) % 256) + (x[3] \div 8)>>

\* h = (h << 5) - h + c
RefStep(h, c) == RefAdd(RefAdd(RefShl5(h), RefNeg(h)), RefWord(c))

\* the hash of the first n characters, before the absolute value
RECURSIVE RefHashLoop(_, _)
RefHashLoop(str, n) ==
    IF n = 0 THEN RefWord(0)
    ELSE RefStep(RefHashLoop(str, n - 1), charCodeAt(str, n - 1))

\* the absolute value of the signed word; -2^31 gives 2^31
RefAbs(h) == IF h[4] >= 128 THEN RefNeg(h) ELSE h

\* the word, read as unsigned, modulo 100
RefMod100(h) == (h[1] + 56 * h[2] + 36 * h[3] + 16 * h[4]) % 100

RefHash(str) == RefAbs(RefHashLoop(str, Len(str)))

RefBucket(str) == RefMod100(RefHash(str)) + 1

\* a percentage_rollout call has returned
RolloutDone == LoadConditionDone /\ call[2].type = "percentage_rollout"

RolloutString ==
    Val(Get(call[2].value, "ruleId")) \o ":" \o Val(call[3].userId)

\* C13: the percentage_rollout condition is false without a userId (absent
\* or empty), at every percentage; with one, it holds iff the bucket
\* (hash(ruleId + ":" + userId) mod 100) + 1, which is in 1..100, is at most
\* the percentage, whatever the other fields of the context
C13_RolloutBucket ==
    RolloutDone =>
        IF ~ Truthy(call[3].userId) THEN ret = <<"done", FALSE>>
        ELSE /\ RefBucket(RolloutString) \in 1..100
             /\ ret = <<"done", RefBucket(RolloutString)
                                  <= Val(Get(call[2].value, "percentage"))>>

\* the user whose hash wraps to -2^31 is in the rollout at 49 percent
C13_Witness ==
    /\ RolloutDone
    /\ call[3].userId = S("mcfqjq")
    /\ Get(call[2].value, "ruleId") = S("b")
    /\ Get(call[2].value, "percentage") = N(49)
    /\ hashLoop("b:mcfqjq", 0, <<0, 0>>) = <<32768, 0>>
    /\ call[3].os = S("iOS")
    /\ ret = <<"done", TRUE>>

\* the same call at another percentage
AtPercentage(percentage) ==
    evaluateLoadCondition(
        Rollout(Val(Get(call[2].value, "ruleId")), percentage),
        call[3], call[4])

\* C14: a rollout that holds for a user at percentage p holds at every
\* p' >= p for the same rule id; for a user with a userId it holds at 100
\* and does not hold at 0
C14_MonotonicRollout ==
    RolloutDone =>
        /\ ret = <<"done", TRUE>> =>
                \A percentage \in Percentages :
                    percentage >= Val(Get(call[2].value, "percentage"))
                        => AtPercentage(percentage)
        /\ Truthy(call[3].userId) =>
                /\ Get(call[2].value, "percentage") = N(100)
                        => ret = <<"done", TRUE>>
                /\ Get(call[2].value, "percentage") = N(0)
                        => ret = <<"done", FALSE>>

\* user055 is in the rollout of "b" at 48 percent and not at 25
C14_Witness ==
    /\ RolloutDone
    /\ call[3].userId = S("user055")
    /\ Get(call[2].value, "ruleId") = S("b")
    /\ Get(call[2].value, "percentage") = N(48)
    /\ ret = <<"done", TRUE>>
    /\ ~ AtPercentage(25)
    /\ AtPercentage(100)

\* a feature_flag call has returned
FlagDone == LoadConditionDone /\ call[2].type = "feature_flag"

RequestFlag == Prop(call[3].featureFlags, "f")
SpecFlag == Prop(Field(call[4], "featureFlags"), "f")

\* C15: the feature_flag condition compares expectedValue with the flag of
\* the request when the request supplies one (a flag given as null is not
\* supplied), with the flag of the specification otherwise, and is false
\* when neither defines the flag
C15_FeatureFlag ==
    FlagDone =>
        IF Tag(RequestFlag) = "bool"
        THEN ret = <<"done", RequestFlag = Get(call[2].value, "expectedValue")>>
        ELSE IF Tag(SpecFlag) = "bool"
        THEN ret = <<"done", SpecFlag = Get(call[2].value, "expectedValue")>>
        ELSE ret = <<"done", FALSE>>

\* the request says false where the specification says true
C15_Witness ==
    /\ FlagDone
    /\ RequestFlag = B(FALSE)
    /\ SpecFlag = B(TRUE)
    /\ Get(call[2].value, "expectedValue") = B(TRUE)
    /\ ret = <<"done", FALSE>>

(***************************************************************************)
(* One RuleEngine called as its public methods allow: registerRules,       *)
(* clearCache and evaluateRuleChain in any order.  Rule "x" is registered  *)
(* with one of two conditions, enabled or not, and may name a dependency   *)
(* that never matched and a chain over "y"; "y" has a chain over "x".      *)
(***************************************************************************)
ChainX(condition, enabled) ==
    [BaseRule EXCEPT !.id = "x", !.name = "x", !.conditions = <<condition>>,
                     !.enabled = enabled]
ChainY ==
    [BaseRule EXCEPT !.id = "y", !.name = "y", !.conditions = <<IsIos>>,
                     !.chain = Chain("AND", <<<<"id", "x">>>>)]

EngineRuleLists ==
    {<<ChainX(condition, enabled)>> :
        condition \in {IsIos, IsAndroid}, enabled \in BOOLEAN}
    \cup {<<[ChainX(IsIos, TRUE) EXCEPT
                !.dependencies = <<"q">>, !.exclusions = <<"y">>,
                !.chain = Chain("NOT", <<<<"id", "y">>>>)],
            ChainY>>}

ChainOperators == {"AND", "OR", "NOT", "XOR", "NAND"}
ChainItems ==
    {<<>>, <<<<"id", "x">>>>, <<<<"id", "q">>>>,
     <<<<"id", "x">>, <<"id", "y">>>>, <<<<"id", "q">>, <<"id", "x">>>>,
     <<<<"id", "y">>, <<"chain", Chain("NOT", <<<<"id", "x">>>>)>>>>,
     <<<<"chain", Chain("OR", <<<<"id", "q">>, <<"id", "y">>>>)>>,
       <<"id", "x">>>>}
Chains == {Chain(operator, items) :
                operator \in ChainOperators, items \in ChainItems}

EngineContexts == {IosContext, BaseContext}

EngineObjectInit ==
    /\ call = <<"new RuleEngine">>
    /\ ret = Pending
    /\ EngineInit

RegisterRulesCall ==
    \E rules \in EngineRuleLists :
        /\ call[1] \in {"new RuleEngine", "registerRules", "clearCache",
                         "evaluateRuleChain", "evaluateRule"}
        /\ call' = <<"registerRules", rules>>
        /\ ret' = <<"done">>
        /\ ruleRegistry' = registerRules(rules)
        /\ UNCHANGED <<evaluationCache, serverVars>>

ClearCacheCall ==
    /\ call[1] \in {"registerRules", "evaluateRuleChain", "evaluateRule"}
    /\ call' = <<"clearCache">>
    /\ ret' = <<"done">>
    /\ evaluationCache' = clearCache(evaluationCache)
    /\ UNCHANGED <<ruleRegistry, serverVars>>

EvaluateRuleChainCall ==
    \E chain \in Chains, context \in EngineContexts :
        \E r \in {evaluateRuleChain(chain, context, ruleRegistry,
                                    evaluationCache)} :
            /\ call[1] \in {"new RuleEngine", "registerRules", "clearCache",
                             "evaluateRuleChain", "evaluateRule"}
            /\ call' = <<"evaluateRuleChain", chain, context>>
            /\ ret' = IF r.thrown THEN <<"throw">> ELSE <<"done", r.value>>
            /\ evaluationCache' = r.cache
            /\ UNCHANGED <<ruleRegistry, serverVars>>

EngineNext == RegisterRulesCall \/ ClearCacheCall \/ EvaluateRuleChainCall

SpecEngine == EngineObjectInit /\ [][EngineNext]_vars

ChainDone == call[1] = "evaluateRuleChain" /\ ret # Pending

(***************************************************************************)
(* The value of a chain as stated: an id stands for the registered rule    *)
(* being enabled with all of its conditions holding, an unregistered id    *)
(* for false.                                                                *)
(***************************************************************************)
RECURSIVE RefChain(_, _, _)

RefItem(item, context, registry) ==
    IF item[1] = "id"
    THEN /\ item[2] \in DOMAIN registry
         /\ registry[item[2]].enabled
         /\ \A i \in DOMAIN registry[item[2]].conditions :
                evaluateCondition(registry[item[2]].conditions[i], context)
    ELSE RefChain(item[2], context, registry)

RefChain(chain, context, registry) ==
    CASE chain[1] = "AND" ->
            \A i \in DOMAIN chain[2] : RefItem(chain[2][i], context, registry)
      [] chain[1] = "OR" ->
            \E i \in DOMAIN chain[2] : RefItem(chain[2][i], context, registry)
      [] chain[1] = "NOT" ->
            chain[2] = <<>> \/ ~ RefItem(chain[2][1], context, registry)
      [] chain[1] = "XOR" ->
            Cardinality({i \in DOMAIN chain[2] :
                            RefItem(chain[2][i], context, registry)}) = 1
      [] OTHER -> FALSE

\* C16: evaluateRuleChain returns, for every chain, the combination by its
\* operator of its items, an id standing for the basic evaluation of the
\* rule registered under it (enabled and all its conditions hold for the
\* context; its dependencies, exclusions and chain are not consulted), an
\* unregistered id for false, a nested chain for its own value
C16_ChainEvaluation ==
    ChainDone => ret = <<"done", RefChain(call[2], call[3], ruleRegistry)>>

(***************************************************************************)
(* RuleEngine.evaluateCondition called on its own.  The conditions range   *)
(* over every condition type and one the engine does not know, every       *)
(* operator and one it does not know, and values of each kind an operator  *)
(* can be given; the contexts over each combination of a field that is     *)
(* absent, empty or set with a fallback that is absent or set.             *)
(***************************************************************************)
CondTypes == ConditionTypes \cup {"platform"}

CondOperators ==
    {"eq", "ne", "gt", "lt", "gte", "lte", "in", "regex", "like"}

CondStrings ==
    {S(""), S("iOS"), S("Android"), S("US"), S("GB"), S("undefined")}

CondValuesFor(operator) ==
    CASE operator \in {"eq", "ne"} ->
            CondStrings \cup {N(5), Nul, A(<<S("iOS"), S("US")>>)}
      [] operator \in {"gt", "lt", "gte", "lte"} -> CondStrings \cup {N(5)}
      [] operator = "in" ->
            {A(<<>>), A(<<S("iOS"), S("US")>>), A(<<S(""), S("undefined")>>),
             S("undefined")}
      [] operator = "regex" -> CondStrings \cup {S("^i"), S("("), S("[")}
      [] OTHER -> CondStrings

Conditions ==
    UNION {{Cond(type, operator, value) : value \in CondValuesFor(operator)} :
            <<type, operator>> \in CondTypes \X CondOperators}

\* a context whose fields are own and whose fallbacks are derived
CondContext(appVersion, own, derived) ==
    [BaseContext EXCEPT
        !.appVersion = appVersion,
        !.os = IF own = Undef THEN Undef ELSE IF own = S("") THEN own
               ELSE S("iOS"),
        !.device = IF own = Undef THEN Undef ELSE IF own = S("") THEN own
                   ELSE S("iOS"),
        !.parsedUA = IF derived = Undef THEN [os |-> Undef, device |-> Undef]
                     ELSE [os |-> S("Android"), device |-> S("Android")],
        !.clientProvidedGeo = [country |-> own, region |-> own],
        !.geoCountry = derived,
        !.geoRegion = derived]

CondContexts ==
    {CondContext(v[1], v[2], v[3]) :
        v \in {Undef, S("1.0.0")} \X {Undef, S(""), S("US")}
                \X {Undef, S("GB")}}

ConditionInit ==
    /\ \E condition \in Conditions, context \in CondContexts :
            call = <<"evaluateCondition", condition, context>>
    /\ ret = Pending
    /\ EngineInit

EvaluateConditionCall ==
    /\ call[1] = "evaluateCondition"
    /\ ret = Pending
    /\ ret' = IF evaluateConditionThrows(call[2], call[3]) THEN <<"throw">>
              ELSE <<"done", evaluateCondition(call[2], call[3])>>
    /\ UNCHANGED <<call, engineVars, serverVars>>

ConditionNext == EvaluateConditionCall

SpecCondition == ConditionInit /\ [][ConditionNext]_vars

ConditionDone == call[1] = "evaluateCondition" /\ ret # Pending

Operators == {"eq", "ne", "gt", "lt", "gte", "lte", "in", "regex"}

\* a condition the evaluation of which is a failure: its type or operator is
\* not one the engine knows, or its regex pattern does not compile
EvaluationFailure(condition) ==
    \/ condition.type \notin ConditionTypes
    \/ condition.operator \notin Operators
    \/ condition.operator = "regex" /\ RegExpThrows(condition.value)

\* C17: evaluateCondition returns false, without raising, for a condition
\* with an unknown type, an unknown operator, or a regex operator whose
\* pattern fails to compile
C17_RecoveredAsFalse ==
    (ConditionDone /\ EvaluationFailure(call[2])) => ret = <<"done", FALSE>>

\* the context has no value for the attribute the condition reads
MissingContextValue(condition, context) ==
    /\ condition.type \in ConditionTypes
    /\ contextValueOf(condition.type, context) = Undef

\* C18: when the context has no value for the attribute a condition reads,
\* evaluateCondition does not raise and returns false for eq, gt, lt, gte,
\* lte, in and regex (whatever the pattern) and true for ne
C18_MissingContextValue ==
    (/\ ConditionDone
     /\ MissingContextValue(call[2], call[3])
     /\ call[2].operator \in Operators)
        => ret = <<"done", call[2].operator = "ne">>

PrecedenceTypes == {"os", "device", "geo_country", "geo_region"}

\* the value a condition of a precedence type is compared with when the
\* client's field is taken whenever it is set
nullishValueOf(type, context) ==
    CASE type = "os" -> Nullish(context.os, context.parsedUA.os)
      [] type = "device" -> Nullish(context.device, context.parsedUA.device)
      [] type = "geo_country" ->
            Nullish(context.clientProvidedGeo.country, context.geoCountry)
      [] type = "geo_region" ->
            Nullish(context.clientProvidedGeo.region, context.geoRegion)

\* C19: a geo_country/geo_region condition is evaluated against
\* clientProvidedGeo.country/region whenever the client supplied it, an
\* os/device condition against context.os/context.device whenever it is
\* set, and against the IP-derived or parsed value only when the field is
\* absent; a field set to the empty string is the value compared
C19_NullishPrecedence ==
    (/\ ConditionDone
     /\ call[2].type \in PrecedenceTypes
     /\ call[2].operator \in Operators
     /\ ~ IsThrow(ret))
        => ret = <<"done", applyOperator(call[2].operator,
                                         nullishValueOf(call[2].type, call[3]),
                                         call[2].value)>>

(***************************************************************************)
(* RuleComposer.processComposition called on its own: a rule m with each   *)
(* composition type, a type the composer does not know and no composition *)
(* at all, whose ids name rules of the list and a rule that is not in it   *)
(* ("zz"), against lists with and without the rule itself.                  *)
(***************************************************************************)
CompositionTypes == {"none", "extend", "compose", "mixin", "inherit"}

SourceRuleIdLists ==
    {<<>>} \cup {<<x>> : x \in {"a", "b", "zz"}}
        \cup {<<x, y>> : <<x, y>> \in {"a", "b", "zz"} \X {"a", "b", "zz"}}
        \cup {<<"zz", "a", "b">>, <<"b", "zz", "a">>, <<"a", "b", "zz">>}

CompositionRules ==
    {[BaseRule EXCEPT
        !.id = "m", !.name = "m", !.config = M([m |-> N(1)]),
        !.tags = <<"t">>,
        !.composition =
            IF c[1] = "none" THEN NoComposition
            ELSE [type |-> c[1], baseRuleId |-> c[2], sourceRuleIds |-> c[3],
                  overrides |-> c[4]]] :
        c \in CompositionTypes \X {"", "a", "zz"} \X SourceRuleIdLists
                \X {NoOverrides, [priority |-> 2]}}

CompositionLists(rule) ==
    {l \o tail : l \in {<<>>, <<RuleA>>, <<RuleA, RuleB>>, <<RuleB, RuleA>>},
                 tail \in {<<>>, <<rule>>}}

CompositionInit ==
    /\ \E rule \in CompositionRules :
        \E allRules \in CompositionLists(rule) :
            call = <<"processComposition", rule, allRules>>
    /\ ret = Pending
    /\ EngineInit

ProcessCompositionCall ==
    /\ call[1] = "processComposition"
    /\ ret = Pending
    /\ \E r \in {processComposition(call[2], call[3])} :
            ret' = IF IsError(r) THEN <<"throw", r.error>> ELSE <<"done", r>>
    /\ UNCHANGED <<call, engineVars, serverVars>>

CompositionNext == ProcessCompositionCall

SpecComposition == CompositionInit /\ [][CompositionNext]_vars

CompositionDone == call[1] = "processComposition" /\ ret # Pending

InList(id, allRules) == \E i \in DOMAIN allRules : allRules[i].id = id

\* allRules.find((r) => r.id === id) for an id of the list
FirstWithId(id, allRules) ==
    allRules[CHOOSE i \in DOMAIN allRules :
                /\ allRules[i].id = id
                /\ \A j \in 1..(i - 1) : allRules[j].id # id]

\* the rules of mixinRules applied to rule as mixins, first to last
RECURSIVE MixinsInOrder(_, _)
MixinsInOrder(rule, mixinRules) ==
    IF mixinRules = <<>> THEN rule
    ELSE MixinsInOrder(applyMixin(rule, Head(mixinRules)), Tail(mixinRules))

\* the rules of the list that ids names, in the order of ids
KnownMixins(ids, allRules) ==
    LET known == SelectSeq(ids, LAMBDA id : InList(id, allRules))
    IN  [i \in DOMAIN known |-> FirstWithId(known[i], allRules)]

\* C20: processComposition raises "Some source rules not found" for a
\* compose rule one of whose sourceRuleIds is not a rule of the list; for a
\* mixin rule it skips the ids that are not in the list and applies the
\* other mixins in the listed order; it raises for an extend rule whose
\* baseRuleId is missing or not in the list; and it returns a rule with no
\* composition or an unknown composition type unchanged
C20_UnknownIds ==
    CompositionDone =>
        LET rule == call[2]
            allRules == call[3]
            composition == rule.composition
            ids == composition.sourceRuleIds
        IN  /\ (/\ composition.type = "compose"
                /\ \E i \in DOMAIN ids : ~ InList(ids[i], allRules))
                    => ret = <<"throw", "Some source rules not found">>
            /\ (composition.type = "mixin" /\ ids # <<>>)
                    => ret = <<"done", MixinsInOrder(rule,
                                            KnownMixins(ids, allRules))>>
            /\ (/\ composition.type = "extend"
                /\ \/ composition.baseRuleId = ""
                   \/ ~ InList(composition.baseRuleId, allRules))
                    => IsThrow(ret)
            /\ composition.type \notin {"extend", "compose", "mixin"}
                    => ret = <<"done", rule>>

\* a mixin rule naming b, an id that is not in the list, and a: b's and
\* then a's mixin are applied
C20_Witness ==
    /\ CompositionDone
    /\ call[2].composition.type = "mixin"
    /\ call[2].composition.sourceRuleIds = <<"b", "zz", "a">>
    /\ call[3] = <<RuleA, RuleB>>
    /\ ret[1] = "done"
    /\ Prop(ret[2].metadata, "mixins") = A(<<S("b"), S("a")>>)
    /\ ret[2].conditions = RuleB.conditions

(***************************************************************************)
(* Materializing the rules of a specification, as GET /config does before  *)
(* it loads and evaluates them: every rule of the list is processed        *)
(* against the list as stored.  The rule at position i has the i-th id of  *)
(* RuleIds; it has no composition or extends x, y, z or a rule that is not *)
(* there.                                                                    *)
(***************************************************************************)
ExtendOptions == {"", "x", "y", "z", "zz"}

ExtendRule(i, baseRuleId) ==
    [BaseRule EXCEPT
        !.id = RuleIds[i], !.name = RuleIds[i],
        !.config = M((RuleIds[i] :> N(i))),
        !.composition =
            IF baseRuleId = "" THEN NoComposition
            ELSE [type |-> "extend", baseRuleId |-> baseRuleId,
                  sourceRuleIds |-> <<>>, overrides |-> NoOverrides]]

ExtendLists ==
    UNION {{[i \in 1..n |-> ExtendRule(i, base[i])] :
                base \in [1..n -> ExtendOptions]} : n \in 1..3}

MaterializeInit ==
    /\ \E rules \in ExtendLists : call = <<"materialize", rules>>
    /\ ret = Pending
    /\ EngineInit

\* spec.rules.map((rule) => ruleComposer.processComposition(rule, spec.rules));
\* the first composition that raises ends the map
MaterializeCall ==
    /\ call[1] = "materialize"
    /\ ret = Pending
    /\ \E rules \in {processedRules([rules |-> call[2]])} :
            ret' = IF \E i \in DOMAIN rules : IsError(rules[i])
                   THEN <<"throw", firstError(rules)>>
                   ELSE <<"done", rules>>
    /\ UNCHANGED <<call, engineVars, serverVars>>

MaterializeNext == MaterializeCall

SpecMaterialize == MaterializeInit /\ [][MaterializeNext]_vars

MaterializeDone == call[1] = "materialize" /\ ret # Pending

\* <<x, y>>: rule x of the list extends rule y of the list
ExtendEdges(rules) ==
    {<<rules[i].id, rules[i].composition.baseRuleId>> :
        i \in {j \in DOMAIN rules :
                /\ rules[j].composition.type = "extend"
                /\ InList(rules[j].composition.baseRuleId, rules)}}

ExtendCycle(rules) ==
    \E e \in Closure(ExtendEdges(rules), Len(rules)) : e[1] = e[2]

\* C21: when the extend references among the rules form a cycle (a rule
\* extends itself, or x extends y and y extends x), materializing the rules
\* reports an error instead of returning materialized rules
C21_CycleDetected ==
    (MaterializeDone /\ ExtendCycle(call[2])) => IsThrow(ret)

(***************************************************************************)
(* RuleComposer.composeRules called on its own, on lists of up to three    *)
(* source rules.  Rules ca and cb are the two sources of the documented    *)
(* example; cc is disabled and holds strings under the keys where the      *)
(* others hold a number and a nested document.                              *)
(***************************************************************************)
MaxSources == 3

SourceCA ==
    [BaseRule EXCEPT
        !.id = "ca", !.name = "A", !.priority = 1,
        !.conditions = <<IsIos>>,
        !.config = M([x |-> N(1), nested |-> M([a |-> N(1)])]),
        !.dependencies = <<"d1", "d2">>, !.exclusions = <<"e1">>,
        !.tags = <<"t1", "t2", "t1">>]

SourceCB ==
    [BaseRule EXCEPT
        !.id = "cb", !.name = "B", !.priority = 2,
        !.conditions = <<Cond("geo_country", "eq", S("US"))>>,
        !.config = M([y |-> N(2), nested |-> M([b |-> N(2)])]),
        !.dependencies = <<"d2", "d3">>, !.exclusions = <<"e1", "e2">>,
        !.tags = <<"t2">>]

SourceCC ==
    [BaseRule EXCEPT
        !.id = "cc", !.name = "C", !.enabled = FALSE,
        !.config = M([x |-> S("s"), nested |-> S("s")]),
        !.tags = <<"t3">>]

SourceLists == SeqsUpTo({SourceCA, SourceCB, SourceCC}, MaxSources)

ComposeStrategies == {"undefined", "merge", "override", "inherit"}

ComposeInit ==
    /\ \E sourceRules \in SourceLists, strategy \in ComposeStrategies :
            call = <<"composeRules", sourceRules, "c", strategy>>
    /\ ret = Pending
    /\ EngineInit

ComposeRulesCall ==
    /\ call[1] = "composeRules"
    /\ ret = Pending
    /\ \E r \in {composeRules(call[2], call[3], call[4])} :
            ret' = IF IsError(r) THEN <<"throw", r.error>> ELSE <<"done", r>>
    /\ UNCHANGED <<call, engineVars, serverVars>>

ComposeNext == ComposeRulesCall

SpecCompose == ComposeInit /\ [][ComposeNext]_vars

ComposeDone == call[1] = "composeRules" /\ ret # Pending

\* the fold of the first n documents, left to right, by the strategy as the
\* three operations on two documents are defined
RECURSIVE RefFold(_, _, _)
RefFold(configs, n, strategy) ==
    IF n = 1 THEN configs[1]
    ELSE LET left == RefFold(configs, n - 1, strategy)
             right == configs[n]
         IN  CASE strategy = "merge" -> RefMerge(left, right)
               [] strategy = "override" -> right
               [] strategy = "inherit" ->
                    M([k \in DOMAIN Val(left) \cup DOMAIN Val(right) |->
                        IF k \in DOMAIN Val(left) THEN Val(left)[k]
                        ELSE Val(right)[k]])

\* the items of the first n positions, each once, in first-occurrence order
RECURSIVE FirstOccurrences(_, _)
FirstOccurrences(items, n) ==
    IF n = 0 THEN <<>>
    ELSE IF \E j \in 1..(n - 1) : items[j] = items[n]
         THEN FirstOccurrences(items, n - 1)
         ELSE Append(FirstOccurrences(items, n - 1), items[n])

\* the values of a field over the rules, concatenated in source order
RECURSIVE Concat(_, _, _)
Concat(rules, n, field) ==
    IF n = 0 THEN <<>>
    ELSE Concat(rules, n - 1, field) \o rules[n][field]

UnionOf(rules, field) ==
    FirstOccurrences(Concat(rules, Len(rules), field),
                     Len(Concat(rules, Len(rules), field)))

\* C22: for a non-empty list of source rules the composed rule has the
\* requested id, the maximum source priority, the sources' conditions
\* concatenated in source order, the left-to-right fold of the source
\* configs by the chosen strategy (deep merge by default), enabled iff
\* every source is, and the de-duplicated first-occurrence union of the
\* sources' dependencies, exclusions and tags; an empty list raises
C22_ComposeRules ==
    ComposeDone =>
        LET sources == call[2]
            strategy == IF call[4] = "undefined" THEN "merge" ELSE call[4]
        IN  IF sources = <<>> THEN IsThrow(ret)
            ELSE /\ ret[1] = "done"
                 /\ ret[2].id = call[3]
                 /\ \E i \in DOMAIN sources :
                        /\ ret[2].priority = sources[i].priority
                        /\ \A j \in DOMAIN sources :
                                sources[j].priority <= ret[2].priority
                 /\ ret[2].conditions
                        = Concat(sources, Len(sources), "conditions")
                 /\ ret[2].config
                        = RefFold([i \in DOMAIN sources |-> sources[i].config],
                                  Len(sources), strategy)
                 /\ ret[2].enabled
                        = (\A i \in DOMAIN sources : sources[i].enabled)
                 /\ ret[2].dependencies = UnionOf(sources, "dependencies")
                 /\ ret[2].exclusions = UnionOf(sources, "exclusions")
                 /\ ret[2].tags = UnionOf(sources, "tags")

(***************************************************************************)
(* The documents as objects in memory.  The heap is the sequence of the    *)
(* objects allocated so far; an object is an array or a plain object and   *)
(* holds, under each key, a primitive value or a reference <<"ref", a>> to *)
(* the object at address a.  Two documents are the same object when they   *)
(* are one address, so an assignment to a property is seen through every   *)
(* reference to the object.                                                  *)
(***************************************************************************)
Ref(a) == <<"ref", a>>
IsRef(slot) == slot[1] = "ref"

\* what { ...v } copies and for (key in v) walks
HeapProps(heap, slot) ==
    IF IsRef(slot) THEN heap[slot[2]].props ELSE OwnProps(slot)

HeapIsArray(heap, slot) == IsRef(slot) /\ heap[slot[2]].arr

\* key in v, for an object v
HeapHasKey(heap, slot, key) ==
    \/ key \in DOMAIN HeapProps(heap, slot)
    \/ HeapIsArray(heap, slot) /\ key = "length"

\* v[key], for an object v that has the key
HeapGet(heap, slot, key) ==
    IF HeapIsArray(heap, slot) /\ key = "length"
    THEN N(Cardinality(DOMAIN HeapProps(heap, slot)))
    ELSE HeapProps(heap, slot)[key]

\* a new plain object with the given properties
NewObject(heap, props) ==
    [heap |-> Append(heap, [arr |-> FALSE, props |-> props]),
     slot |-> Ref(Len(heap) + 1), thrown |-> FALSE]

\* object[key] = slot
Assign(heap, object, key, slot) ==
    [heap EXCEPT ![object[2]].props = (key :> slot) @@ @]

\* const result = target, in the place of a copy
spreadCopy_Alias(heap, target) ==
    IF IsRef(target) THEN [heap |-> heap, slot |-> target, thrown |-> FALSE]
    ELSE NewObject(heap, HeapProps(heap, target))

\* const result = { ...target }
spreadCopy(heap, target) == NewObject(heap, HeapProps(heap, target))

RECURSIVE deepMergeOnHeap(_, _, _)
RECURSIVE mergeKeys(_, _, _, _, _)

\* result[key] = this.deepMerge(target[key], source[key]), the nested call
\* having returned m
assignMerged(m, result, target, source, keys) ==
    IF m.thrown THEN m
    ELSE mergeKeys(Assign(m.heap, result, Head(keys), m.slot), result, target,
                   source, Tail(keys))

\* for (const key in source) { ... } return result
mergeKeys(heap, result, target, source, keys) ==
    IF keys = <<>> THEN [heap |-> heap, slot |-> result, thrown |-> FALSE]
    ELSE IF ~ IsRef(HeapGet(heap, source, Head(keys)))
    THEN mergeKeys(Assign(heap, result, Head(keys),
                          HeapGet(heap, source, Head(keys))),
                   result, target, source, Tail(keys))
    ELSE IF ~ IsRef(target)
    THEN [heap |-> heap, slot |-> result, thrown |-> TRUE]
    ELSE IF /\ HeapHasKey(heap, target, Head(keys))
            /\ ~ HeapIsArray(heap, HeapGet(heap, source, Head(keys)))
    THEN assignMerged(deepMergeOnHeap(heap, HeapGet(heap, target, Head(keys)),
                                      HeapGet(heap, source, Head(keys))),
                      result, target, source, keys)
    ELSE mergeKeys(Assign(heap, result, Head(keys),
                          HeapGet(heap, source, Head(keys))),
                   result, target, source, Tail(keys))

mergeInto(copy, target, source) ==
    mergeKeys(copy.heap, copy.slot, target, source,
              SortedKeys(DOMAIN HeapProps(copy.heap, source)))

\* RuleComposer.deepMerge on the heap: [heap, slot, thrown]
deepMergeOnHeap(heap, target, source) ==
    mergeInto(spreadCopy(heap, target), target, source)

\* RuleEngine.resolveConfig on the heap, from the accumulator st on
resolveStepOnHeap(st, rule) ==
    CASE rule.resolutionStrategy = "override" -> spreadCopy(st.heap, rule.config)
      [] rule.resolutionStrategy = "merge" ->
            deepMergeOnHeap(st.heap, st.slot, rule.config)
      [] rule.resolutionStrategy = "inherit" ->
            NewObject(st.heap, ObjSpread2(HeapProps(st.heap, rule.config),
                                          HeapProps(st.heap, st.slot)))
      [] OTHER -> st

RECURSIVE resolveLoopOnHeap(_, _)
resolveLoopOnHeap(st, rules) ==
    IF st.thrown \/ rules = <<>> THEN st
    ELSE resolveLoopOnHeap(resolveStepOnHeap(st, Head(rules)), Tail(rules))

resolveConfigOnHeap(heap, defaultConfig, matchedRules) ==
    resolveLoopOnHeap(spreadCopy(heap, defaultConfig), matchedRules)

(***************************************************************************)
(* A stored specification in memory: its default config and the configs of *)
(* its matched rules are allocated one after the other, every nested       *)
(* document and array as an object of its own.                              *)
(***************************************************************************)
RECURSIVE storeValue(_, _)
RECURSIVE storeProps(_, _, _, _)

storeObject(st, arr) ==
    [heap |-> Append(st.heap, [arr |-> arr, props |-> st.props]),
     slot |-> Ref(Len(st.heap) + 1)]

storeNext(s, props, keys, done) ==
    storeProps(s.heap, props, Tail(keys), (Head(keys) :> s.slot) @@ done)

storeProps(heap, props, keys, done) ==
    IF keys = <<>> THEN [heap |-> heap, props |-> done]
    ELSE storeNext(storeValue(heap, props[Head(keys)]), props, keys, done)

storeValue(heap, v) ==
    IF ~ IsObject(v) THEN [heap |-> heap, slot |-> v]
    ELSE storeObject(storeProps(heap, OwnProps(v),
                                SortedKeys(DOMAIN OwnProps(v)), <<>>),
                     IsArray(v))

storeRule(s, rule) ==
    [heap |-> s.heap,
     rule |-> [config |-> s.slot,
               resolutionStrategy |-> rule.resolutionStrategy]]

RECURSIVE storeRules(_, _, _)
storeNextRule(s, rules, done) ==
    storeRules(s.heap, Tail(rules), Append(done, s.rule))

storeRules(heap, rules, done) ==
    IF rules = <<>> THEN [heap |-> heap, rules |-> done]
    ELSE storeNextRule(storeRule(storeValue(heap, Head(rules).config),
                                 Head(rules)),
                       rules, done)

storedCall(d, rs) ==
    <<"resolveConfig on the heap", rs.heap, d.slot, rs.rules>>

\* the document a slot denotes
RECURSIVE valueAt(_, _)
valueAt(heap, slot) ==
    IF ~ IsRef(slot) THEN slot
    ELSE IF heap[slot[2]].arr
    THEN A([i \in 1..Cardinality(DOMAIN heap[slot[2]].props) |->
                valueAt(heap, heap[slot[2]].props[IndexKey(i - 1)])])
    ELSE M([k \in DOMAIN heap[slot[2]].props |->
                valueAt(heap, heap[slot[2]].props[k])])

HeapInit ==
    /\ \E d \in ConfigDocs, rs \in SeqsUpTo(FoldRules, MaxMatched) :
        \E sd \in {storeValue(<<>>, d)} :
            call = storedCall(sd, storeRules(sd.heap, rs, <<>>))
    /\ ret = Pending
    /\ EngineInit

ResolveConfigOnHeapCall ==
    /\ call[1] = "resolveConfig on the heap"
    /\ ret = Pending
    /\ \E r \in {resolveConfigOnHeap(call[2], call[3], call[4])} :
            ret' = IF r.thrown THEN <<"throw", r.heap>>
                   ELSE <<"done", r.heap, r.slot>>
    /\ UNCHANGED <<call, engineVars, serverVars>>

HeapNext == ResolveConfigOnHeapCall

SpecHeap == HeapInit /\ [][HeapNext]_vars

HeapDone == call[1] = "resolveConfig on the heap" /\ ret # Pending

\* the call returns what resolveConfig returns on the documents themselves
HeapAgrees ==
    HeapDone =>
        \E v \in {resolveConfig(
                    valueAt(call[2], call[3]),
                    [i \in DOMAIN call[4] |->
                        [BaseRule EXCEPT
                            !.config = valueAt(call[2], call[4][i].config),
                            !.resolutionStrategy =
                                call[4][i].resolutionStrategy]])} :
            IF IsThrow(v) THEN IsThrow(ret)
            ELSE ret[1] = "done" /\ valueAt(ret[2], ret[3]) = v

Deleted == locals.handler = "DELETE" /\ response.status = 200

\* C24: after DELETE /config/{appId}/{version} has answered with success, a
\* lookup of that pair returns absent
C24_DeleteRemoves ==
    Deleted =>
        ~ HasSpecification(specifications, S(locals.appId), S(locals.version))

(***************************************************************************)
(* ConfigurationManager called on its own: saves, lookups and listings in  *)
(* any order.  A save completes when the file is written and fails, with   *)
(* the store as it was, when the write is rejected.  locals records, for    *)
(* the properties, the specification last saved under each pair.           *)
(***************************************************************************)
MaxSaves == 3

StoreAppIds == {"a", "a:b"}
StoreVersions == {"1.0.0", "b:1.0.0"}
StorePairs == StoreAppIds \X StoreVersions

StoreSpecs ==
    {[id |-> S(id), appId |-> S(pair[1]), version |-> S(pair[2]),
      schema |-> Schema(<<>>, <<>>, <<>>), defaultConfig |-> M(<<>>),
      rules |-> <<>>] :
        id \in {"s", "t"}, pair \in StorePairs}

\* Array.from(this.specifications.values()), here in the order of the keys
getAllSpecifications(store) ==
    [i \in 1..Cardinality(DOMAIN store) |->
        store[SortedKeys(DOMAIN store)[i]]]

StoreInit ==
    /\ call = <<"new ConfigurationManager">>
    /\ ret = Pending
    /\ ruleRegistry = <<>>
    /\ evaluationCache = <<>>
    /\ specifications = <<>>
    /\ loadedRulesCache = <<>>
    /\ templates = <<>>
    /\ clock = 0
    /\ response = NoResponse
    /\ locals = [handler |-> "none", saved |-> <<>>]

SaveSpecificationCall ==
    \E spec \in StoreSpecs, written \in BOOLEAN :
        /\ clock < MaxSaves
        /\ clock' = clock + 1
        /\ call' = <<"saveSpecification", spec>>
        /\ IF written
           THEN /\ specifications' =
                    saveSpecification(specifications, spec, toISOString(clock'))
                /\ ret' = <<"done">>
                /\ locals' =
                    [locals EXCEPT !.saved =
                        (<<Val(spec.appId), Val(spec.version)>>
                            :> ([updatedAt |-> toISOString(clock')] @@ spec))
                        @@ @]
           ELSE /\ ret' = <<"throw", "write failed">>
                /\ UNCHANGED <<specifications, locals>>
        /\ UNCHANGED <<engineVars, loadedRulesCache, templates, response>>

GetSpecificationCall ==
    \E pair \in StorePairs :
        /\ call' = <<"getSpecification", pair[1], pair[2]>>
        /\ ret' = IF HasSpecification(specifications, S(pair[1]), S(pair[2]))
                  THEN <<"done", getSpecification(specifications, S(pair[1]),
                                                  S(pair[2]))>>
                  ELSE <<"done", Undef>>
        /\ UNCHANGED <<engineVars, serverVars>>

GetAllSpecificationsCall ==
    /\ call' = <<"getAllSpecifications">>
    /\ ret' = <<"done", getAllSpecifications(specifications)>>
    /\ UNCHANGED <<engineVars, serverVars>>

StoreNext ==
    SaveSpecificationCall \/ GetSpecificationCall \/ GetAllSpecificationsCall

SpecStore == StoreInit /\ [][StoreNext]_vars

\* C25: getSpecification returns the specification most recently saved
\* with the pair and undefined for a pair never saved, and
\* getAllSpecifications returns exactly one specification per saved pair
C25_StoreUpsert ==
    /\ call[1] = "getSpecification" =>
            ret = <<"done", IF <<call[2], call[3]>> \in DOMAIN locals.saved
                            THEN locals.saved[<<call[2], call[3]>>]
                            ELSE Undef>>
    /\ call[1] = "getAllSpecifications" =>
            /\ Len(ret[2]) = Cardinality(DOMAIN locals.saved)
            /\ \A pair \in DOMAIN locals.saved :
                    \E i \in DOMAIN ret[2] :
                        /\ Val(ret[2][i].appId) = pair[1]
                        /\ Val(ret[2][i].version) = pair[2]

(***************************************************************************)
(* The administrative requests on their own: POST /config and PUT          *)
(* /config/:appId/:version over the pairs of the store, one of which has a *)
(* version that contains a colon.                                            *)
(***************************************************************************)
AdminBodies ==
    {[id |-> S(id), appId |-> S(pair[1]), version |-> S(pair[2]),
      schema |-> OpenSchema, defaultConfig |-> M([a |-> S(id)])] :
        id \in {"s", "t"}, pair \in StorePairs}

PostAdmin == \E body \in AdminBodies : PostHandler(body)

PutAdmin ==
    \E pair \in StorePairs, updates \in Updates :
        PutHandler(pair[1], pair[2], updates)

AdminNext == PostAdmin \/ PutAdmin

SpecAdmin == ServerInit /\ [][AdminNext]_vars

IdentityFields == {"appId", "version", "id", "createdAt"}

\* C26: after a successful PUT the stored specification has the appId,
\* version, id and createdAt it had, also when the body names other values
\* for them; every other field named in the body has the body's value and
\* every field not named its previous value (updatedAt apart, which the
\* save stamps); a PUT for an unknown pair answers 404 and stores nothing
C26_PutKeepsIdentity ==
    [][locals'.handler = "PUT" =>
        LET old == getSpecification(specifications, S(locals'.appId),
                                    S(locals'.version))
            new == getSpecification(specifications', S(locals'.appId),
                                    S(locals'.version))
            updates == locals'.updates
        IN  IF ~ HasSpecification(specifications, S(locals'.appId),
                                  S(locals'.version))
            THEN response'.status = 404 /\ specifications' = specifications
            ELSE response'.status = 200 =>
                    /\ \A f \in IdentityFields : Field(new, f) = Field(old, f)
                    /\ \A f \in DOMAIN new \ (IdentityFields \cup {"updatedAt"}) :
                            new[f] = IF f \in DOMAIN updates THEN updates[f]
                                     ELSE old[f]
                    /\ DOMAIN new \ IdentityFields
                            = (DOMAIN old \cup DOMAIN updates) \ IdentityFields
       ]_vars

\* C27: from the empty store, after any sequence of POST and PUT requests
\* every stored specification's defaultConfig passes validateConfig against
\* that specification's own schema
C27_StoreInvariant ==
    \A key \in DOMAIN specifications :
        validateConfig(specifications[key].defaultConfig,
                       specifications[key].schema).valid

\* C28: a resolve request whose flags or context parameter is not valid
\* JSON is served as if the parameter were absent: it is answered with 200
\* or 404, never with 500
C28_MalformedRecovered ==
    (locals.handler = "GET" /\ contextThrows(locals.req)) =>
        response.status \in {200, 404}

(***************************************************************************)
(* Function-level specification of validateConfig: documents over a few    *)
(* top-level keys, one of them holding a nested document, and schemas      *)
(* whose lists name some of the keys.                                       *)
(***************************************************************************)
ValidateKeys == {"q", "d", "n", "z", "constructor"}

ValidateConfigs ==
    {M([k \in keys |-> IF k = "n" THEN nested ELSE S("v")]) :
        keys \in SUBSET {"q", "d", "n", "z"},
        nested \in {S("v"), M([z |-> S("v")]), M([q |-> S("v"), d |-> S("v")])}}

ValidateSchemas ==
    {Schema(requiredKeys, optionalKeys, deprecatedKeys) :
        requiredKeys \in {<<>>, <<"q">>, <<"q", "n">>, <<"constructor">>},
        optionalKeys \in {<<>>, <<"n">>},
        deprecatedKeys \in {<<>>, <<"d">>}}

ValidateInit ==
    /\ \E config \in ValidateConfigs, schema \in ValidateSchemas :
            call = <<"validateConfig", config, schema>>
    /\ ret = Pending
    /\ EngineInit

ValidateConfigCall ==
    /\ call[1] = "validateConfig"
    /\ ret = Pending
    /\ ret' = <<"done", validateConfig(call[2], call[3])>>
    /\ UNCHANGED <<call, engineVars, serverVars>>

ValidateNext == ValidateConfigCall

SpecValidate == ValidateInit /\ [][ValidateNext]_vars

ValidateDone == call[1] = "validateConfig" /\ ret # Pending

\* how many of the errors are the given message
CountOf(errors, message) ==
    Cardinality({i \in DOMAIN errors : errors[i] = message})

TopLevelKeys(config) == DOMAIN Val(config)

\* C29: validateConfig returns one "Missing required key" error per
\* required key that is not a top-level key of the document, one "Using
\* deprecated key" error per top-level key listed in deprecatedKeys, one
\* "Unknown key" error per top-level key in none of the three lists, and no
\* other error; valid is true exactly when there are no errors; keys of
\* nested documents are not examined
C29_ValidateConfig ==
    ValidateDone =>
        LET config == call[2]
            schema == call[3]
            errors == ret[2].errors
            listed == Range(schema.requiredKeys) \cup Range(schema.optionalKeys)
                        \cup Range(schema.deprecatedKeys)
            One(b) == IF b THEN 1 ELSE 0
        IN  /\ \A key \in ValidateKeys :
                /\ CountOf(errors, "Missing required key: " \o key) =
                        One(/\ key \in Range(schema.requiredKeys)
                            /\ key \notin TopLevelKeys(config))
                /\ CountOf(errors, "Using deprecated key: " \o key) =
                        One(/\ key \in TopLevelKeys(config)
                            /\ key \in Range(schema.deprecatedKeys))
                /\ CountOf(errors, "Unknown key: " \o key) =
                        One(/\ key \in TopLevelKeys(config)
                            /\ key \notin listed)
            /\ \A i \in DOMAIN errors :
                    \E key \in ValidateKeys :
                        errors[i] \in {"Missing required key: " \o key,
                                       "Using deprecated key: " \o key,
                                       "Unknown key: " \o key}
            /\ ret[2].valid <=> (errors = <<>>)

(***************************************************************************)
(* Concurrent resolve requests.  The GET handler runs up to its one await, *)
(* the geolocation lookup, and is resumed later; between the two any other *)
(* request may arrive, be resumed, or be served.  What runs after the      *)
(* await has no further await, so it is one step.  call holds the requests *)
(* that wait for their lookup and how many resolves finished (up to 2).    *)
(***************************************************************************)
MaxInFlight == 2

ConcurrentBodies ==
    {body \in Bodies :
        /\ "rules" \in DOMAIN body
        /\ \/ body.appId = S("app") /\ body.rules = <<RuleA, RuleB>>
           \/ body.appId = S("web") /\ body.rules = <<RuleB>>}

ConcurrentRequests ==
    {BaseRequest, [BaseRequest EXCEPT !.flags = S("{\"f\":true}")]}

ConcurrentInit ==
    /\ call = <<"server", {}, 0>>
    /\ ret = Pending
    /\ EngineInit

PostConcurrent == \E body \in ConcurrentBodies : PostHandler(body)

\* the handler up to `await geoService.lookupIP(clientIP)`
StartGet ==
    \E appId \in AppIds, version \in Versions, req \in ConcurrentRequests :
        /\ call[1] = "server"
        /\ Cardinality(call[2]) < MaxInFlight
        /\ [appId |-> appId, version |-> version, req |-> req] \notin call[2]
        /\ call' = [call EXCEPT ![2] = @ \cup {[appId |-> appId,
                                                version |-> version,
                                                req |-> req]}]
        /\ UNCHANGED <<ret, engineVars, serverVars>>

\* the handler from the return of the lookup to its response
ResumeGet ==
    \E pending \in call[2] :
        /\ GetContinuation(pending.appId, pending.version, pending.req)
        /\ call' = [call EXCEPT ![2] = @ \ {pending},
                                ![3] = IF @ < 2 THEN @ + 1 ELSE @]
        /\ UNCHANGED ret

ConcurrentNext == PostConcurrent \/ StartGet \/ ResumeGet

SpecConcurrent == ConcurrentInit /\ [][ConcurrentNext]_vars

\* the last request served was a resolve that reached evaluateAllRules
Evaluated ==
    locals.handler = "GET" /\ "evaluated" \in DOMAIN locals /\ locals.evaluated

\* C30: after a resolve request's evaluation, whatever the interleaving of
\* the requests, the rule registry holds exactly the rules of that request
\* and every entry of the memoization cache is for that request's context
\* and one of its rules
C30_RequestLocal ==
    Evaluated =>
        /\ ruleRegistry = registerRules(locals.allRules)
        /\ \A key \in DOMAIN evaluationCache :
                /\ key[2] = locals.context
                /\ \E i \in DOMAIN locals.allRules :
                        locals.allRules[i].id = key[1]

\* a resolve was evaluated after another resolve had finished and while a
\* third request waits for its lookup
C30_Witness ==
    /\ Evaluated
    /\ evaluationCache # <<>>
    /\ call[1] = "server" /\ call[3] = 2 /\ call[2] # {}

(***************************************************************************)
(* Function-level specification of the three strategies on two documents:  *)
(* RuleComposer.mergeConfigs(left, right, strategy) and, for the resolver, *)
(* resolveConfig(left, [a rule with config right and the strategy]).       *)
(***************************************************************************)
StrategyInit ==
    /\ \E op \in {"mergeConfigs", "resolveConfig"}, left \in Documents,
          right \in ConfigDocs, strategy \in Strategies :
            call = <<op, left, right, strategy>>
    /\ ret = Pending
    /\ EngineInit

MergeConfigsCall ==
    /\ call[1] = "mergeConfigs" /\ Len(call) = 4
    /\ ret = Pending
    /\ ret' = <<"done", mergeConfigs(call[2], call[3], call[4])>>
    /\ UNCHANGED <<call, engineVars, serverVars>>

ResolveOneCall ==
    /\ call[1] = "resolveConfig" /\ Len(call) = 4
    /\ ret = Pending
    /\ ret' = <<"done",
                resolveConfig(call[2],
                              <<[BaseRule EXCEPT
                                    !.config = call[3],
                                    !.resolutionStrategy = call[4]]>>)>>
    /\ UNCHANGED <<call, engineVars, serverVars>>

StrategyNext == MergeConfigsCall \/ ResolveOneCall

SpecStrategy == StrategyInit /\ [][StrategyNext]_vars

StrategyDone ==
    call[1] \in {"mergeConfigs", "resolveConfig"} /\ Len(call) = 4
        /\ ret # Pending

\* C31: for documents D and X, merge(D, {}) = D, override(X, D) = D and
\* inherit(D, {}) = D; and inherit(L, R) has every top-level key of L with
\* L's value and, besides those, exactly the keys of R that L lacks, with
\* R's values
C31_StrategyIdentities ==
    StrategyDone =>
        LET left == call[2]
            right == call[3]
            strategy == call[4]
            result == ret[2]
        IN  /\ (strategy = "merge" /\ right = M(<<>>)) => result = left
            /\ strategy = "override" => result = right
            /\ (strategy = "inherit" /\ right = M(<<>>)) => result = left
            /\ strategy = "inherit" =>
                /\ IsMap(result)
                /\ DOMAIN Val(result) = DOMAIN Val(left) \cup DOMAIN Val(right)
                /\ \A key \in DOMAIN Val(left) :
                        Val(result)[key] = Val(left)[key]
                /\ \A key \in DOMAIN Val(right) \ DOMAIN Val(left) :
                        Val(result)[key] = Val(right)[key]

\* inherit was applied to two documents that give one key different values
C31_Witness ==
    /\ StrategyDone
    /\ call[4] = "inherit"
    /\ \E key \in DOMAIN Val(call[2]) \cap DOMAIN Val(call[3]) :
            Val(call[2])[key] # Val(call[3])[key]

(***************************************************************************)
(* Function-level specification of the sort under constraints of every     *)
(* kind: a rule may name itself, another rule of the list, or "q", which   *)
(* is no rule of the list, in executeAfter and in executeBefore; later     *)
(* rules have higher priority; every rule matches and may stop the         *)
(* propagation.                                                             *)
(***************************************************************************)
OrderTargets == IdSet \cup {"q"}

OrderRules(i) ==
    {[BaseRule EXCEPT !.id = RuleIds[i], !.name = RuleIds[i],
                      !.priority = i - 1,
                      !.executeAfter = ea, !.executeBefore = eb,
                      !.stopPropagation = sp] :
        ea \in {<<>>} \cup {<<a>> : a \in OrderTargets},
        eb \in {<<>>} \cup {<<a>> : a \in OrderTargets},
        sp \in IF i = 2 THEN BOOLEAN ELSE {FALSE}}

RECURSIVE OrderLists(_)
OrderLists(n) ==
    IF n = 0 THEN {<<>>}
    ELSE {Append(rs, r) : rs \in OrderLists(n - 1), r \in OrderRules(n)}

OrderInit ==
    /\ \E n \in 0..Len(RuleIds) :
          call \in {<<"evaluateAllRules", rs, IosContext>> : rs \in OrderLists(n)}
    /\ ret = Pending
    /\ EngineInit

OrderNext == EvaluateAllRulesCall

SpecOrder == OrderInit /\ [][OrderNext]_vars

\* how many times the item occurs in the list
Occurrences(items, item) ==
    Cardinality({k \in DOMAIN items : items[k] = item})

\* the ids stated to come before rule i, and how many times that is stated
StatedBefore(rules, i) ==
    Range(rules[i].executeAfter)
        \cup {rules[j].id : j \in {k \in DOMAIN rules :
                                    rules[i].id \in Range(rules[k].executeBefore)}}

\* how many times the first n rules name rule i in their executeBefore
RECURSIVE StatedByFirst(_, _, _)
StatedByFirst(rules, i, n) ==
    IF n = 0 THEN 0
    ELSE Occurrences(rules[n].executeBefore, rules[i].id)
            + StatedByFirst(rules, i, n - 1)

StatedCount(rules, i) ==
    Len(rules[i].executeAfter) + StatedByFirst(rules, i, Len(rules))

\* the rules the ready queue releases: those every stated constraint on
\* which is stated once and names a released rule
RECURSIVE ReleasedFrom(_, _)
ReleasedFrom(rules, released) ==
    LET more == {i \in DOMAIN rules \ released :
                    /\ StatedCount(rules, i)
                            = Cardinality(StatedBefore(rules, i))
                    /\ StatedBefore(rules, i)
                            \subseteq {rules[j].id : j \in released}}
    IN  IF more = {} THEN released ELSE ReleasedFrom(rules, released \cup more)

Released(rules) == ReleasedFrom(rules, {})

MatchedSoFar == SUBSET {"q", "y"}

EvaluateRuleCall ==
    \E id \in DOMAIN ruleRegistry, context \in EngineContexts,
       matchedRuleIds \in MatchedSoFar :
        \E r \in {evaluateRule(ruleRegistry[id], context, matchedRuleIds,
                               ruleRegistry, evaluationCache)} :
            /\ call[1] \in {"registerRules", "clearCache",
                             "evaluateRuleChain", "evaluateRule"}
            /\ call' = <<"evaluateRule", ruleRegistry[id], context,
                         matchedRuleIds>>
            /\ ret' = IF r.thrown THEN <<"throw">>
                      ELSE <<"done", [matched |-> r.matched,
                                      reason |-> r.reason]>>
            /\ evaluationCache' = r.cache
            /\ UNCHANGED <<ruleRegistry, serverVars>>

EngineCallsNext ==
    RegisterRulesCall \/ ClearCacheCall \/ EvaluateRuleChainCall
        \/ EvaluateRuleCall

SpecEngineCalls == EngineObjectInit /\ [][EngineCallsNext]_vars

RuleDone == call[1] = "evaluateRule" /\ ret # Pending

\* the basic evaluation of a rule without the memo: enabled, and every
\* condition holds for the context
RefBasic(rule, context) ==
    /\ rule.enabled
    /\ \A i \in DOMAIN rule.conditions :
            evaluateCondition(rule.conditions[i], context)

\* the first check of evaluateRule that fails, as a reason
RefReason(rule, context, matchedRuleIds, registry) ==
    CASE ~ rule.enabled -> "Rule disabled"
      [] rule.enabled /\ Range(rule.exclusions) \cap matchedRuleIds # {} ->
            "Excluded by another rule"
      [] OTHER ->
            IF ~ Range(rule.dependencies) \subseteq matchedRuleIds
            THEN "Missing dependencies"
            ELSE IF rule.chain # NoChain /\ ~ RefChain(rule.chain, context, registry)
            THEN "Chain evaluation failed"
            ELSE IF ~ RefBasic(rule, context)
            THEN "Conditions not met"
            ELSE "All conditions met"

\* C33: evaluateRule reports the first of its checks that fails, in the
\* order disabled, excluded, missing dependencies, chain false, own
\* conditions false, and matches, with reason "All conditions met", exactly
\* when none fails
C33_CheckOrder ==
    RuleDone =>
        LET reason == RefReason(call[2], call[3], call[4], ruleRegistry)
        IN  ret = <<"done", [matched |-> reason = "All conditions met",
                             reason |-> reason]>>

\* C35: over any sequence of registerRules, clearCache, evaluateRule and
\* evaluateRuleChain calls, every memoized result for the id of a
\* registered rule is the unmemoized basic evaluation of that rule for the
\* memoized context: registering rules leaves no result of another rule
\* that had the id
C35_MemoAgrees ==
    \A key \in DOMAIN evaluationCache :
        key[1] \in DOMAIN ruleRegistry =>
            evaluationCache[key] = RefBasic(ruleRegistry[key[1]], key[2])

(***************************************************************************)
(* One specification, created once, replaced by PUT requests and resolved  *)
(* before and after them.                                                    *)
(***************************************************************************)
ReplaceBodies ==
    {body \in Bodies : body.appId = S("app") /\ Field(body, "id") = S("s")}

PostReplace ==
    \E body \in ReplaceBodies :
        /\ ~ HasSpecification(specifications, body.appId, body.version)
        /\ PostHandler(body)

PutReplace == \E updates \in Updates : PutHandler("app", "1.0.0", updates)

GetReplace == \E req \in Requests : GetHandler("app", "1.0.0", req)

ReplaceNext == PostReplace \/ PutReplace \/ GetReplace

SpecReplace == ServerInit /\ [][ReplaceNext]_vars

\* the evaluation set of the resolved request as the stored specification
\* gives it: its materialized rules without the conditionally loaded ones,
\* then the rules its gates load for the request
StoredEvaluationSet ==
    LET spec == getSpecification(specifications, S(locals.appId),
                                 S(locals.version))
        rules == processedRules(spec)
    IN  combineRules(rules,
                     loadConditionalRules(spec, locals.context, rules,
                                          <<>>).rules)

\* C34: every resolve is computed from the specification stored at the
\* time, also after a PUT replaced it and a resolve with the same context
\* was served before: the rules it evaluates, with the conditionally loaded
\* ones among them, are those of the stored conditionalRules, featureFlags,
\* environment and rules
C34_ReplacedTakesEffect ==
    (Resolved /\ locals.evaluated) => locals.allRules = StoredEvaluationSet

(***************************************************************************)
(* Specifications with a rule "c" stored with enabled = false, plain or    *)
(* composed from rule "b" in each of the three ways, with or without a     *)
(* conditionalRules entry that admits it behind a feature flag.  Each      *)
(* specification has its own id.                                            *)
(***************************************************************************)
InertTypes == {"none", "extend", "compose", "mixin"}

InertRule(type) ==
    [BaseRule EXCEPT !.id = "c", !.name = "c", !.enabled = FALSE,
                     !.config = M([a |-> S("s")]),
                     !.composition =
                        [type |-> type,
                         baseRuleId |-> IF type = "extend" THEN "b" ELSE "",
                         sourceRuleIds |-> IF type \in {"compose", "mixin"}
                                           THEN <<"b">> ELSE <<>>,
                         overrides |-> NoOverrides]]

FlagGateC == [FlagGate EXCEPT !.ruleId = "c"]

InertBodies ==
    {[id |-> S(type \o (IF gated THEN "-gated" ELSE "")), appId |-> S("app"),
      version |-> S("1.0.0"), schema |-> OpenSchema,
      defaultConfig |-> M(<<>>), rules |-> <<RuleB, InertRule(type)>>,
      conditionalRules |-> IF gated THEN <<FlagGateC>> ELSE <<>>] :
        type \in InertTypes, gated \in BOOLEAN}

InertRequests ==
    {[BaseRequest EXCEPT !.country = country, !.flags = flags] :
        country \in {Undef, S("US")}, flags \in {Undef, S("{\"f\":true}")}}

PostInert == \E body \in InertBodies : PostHandler(body)

GetInert == \E req \in InertRequests : GetHandler("app", "1.0.0", req)

InertNext == PostInert \/ GetInert

SpecInert == ServerInit /\ [][InertNext]_vars

\* the conditionalRules entries of the resolved specification that name the
\* rule and whose load conditions all hold for the request
GatesAdmitting(ruleId) ==
    {i \in DOMAIN locals.spec.conditionalRules :
        /\ locals.spec.conditionalRules[i].ruleId = ruleId
        /\ shouldLoadRule(locals.spec.conditionalRules[i].loadConditions, 1,
                          locals.context, locals.spec) = "true"}

\* C36: a rule stored with enabled = false, whose composition overrides do
\* not set enabled, is among the matchedRules of a resolve only if a
\* conditionalRules entry for its id has all its load conditions holding
\* for the request, whatever the rule's composition type
C36_DisabledInert ==
    (Resolved /\ response.status = 200) =>
        \A i \in DOMAIN locals.spec.rules :
            LET rule == locals.spec.rules[i]
            IN  (/\ ~ rule.enabled
                 /\ "enabled" \notin DOMAIN rule.composition.overrides
                 /\ \E k \in DOMAIN response.matchedRules :
                        response.matchedRules[k].id = rule.id)
                    => GatesAdmitting(rule.id) # {}

(***************************************************************************)
(* RuleComposer.createFromTemplate on the registered templates.  A         *)
(* template and the overrides are partial rules; the created rule has the  *)
(* fields that come out defined.                                            *)
(***************************************************************************)
\* overrides.f || template.f, for a text field (an empty text is falsy)
TextOr(overrides, template, f) ==
    IF f \in DOMAIN overrides /\ overrides[f] # "" THEN (f :> overrides[f])
    ELSE IF f \in DOMAIN template THEN (f :> template[f])
    ELSE <<>>

\* overrides.f || template.f for a list or an object, and overrides.f ??
\* template.f
FirstDefined(overrides, template, f) ==
    IF f \in DOMAIN overrides THEN (f :> overrides[f])
    ELSE IF f \in DOMAIN template THEN (f :> template[f])
    ELSE <<>>

ConfigOrEmpty(partial) ==
    IF "config" \in DOMAIN partial THEN partial.config ELSE M(<<>>)

MetadataOf(partial) ==
    IF "metadata" \in DOMAIN partial THEN Spread(partial.metadata) ELSE <<>>

createFromTemplate(registered, templateId, overrides) ==
    IF templateId \notin DOMAIN registered
    THEN Error("Template not found: " \o templateId)
    ELSE IF "id" \notin DOMAIN overrides \/ overrides.id = ""
    THEN Error("Rule ID must be provided when creating from template")
    ELSE LET template == registered[templateId]
         IN  [id |-> overrides.id,
              config |-> deepMerge(ConfigOrEmpty(template),
                                   ConfigOrEmpty(overrides)),
              metadata |->
                M(ObjSpread2(ObjSpread2(MetadataOf(template),
                                        MetadataOf(overrides)),
                             [createdFromTemplate |-> S(templateId)]))]
                @@ (IF TextOr(overrides, template, "name") = <<>>
                       \/ TextOr(overrides, template, "name").name = ""
                    THEN [name |-> "Unnamed Rule"]
                    ELSE TextOr(overrides, template, "name"))
                @@ TextOr(overrides, template, "description")
                @@ FirstDefined(overrides, template, "priority")
                @@ [priority |-> 0]
                @@ FirstDefined(overrides, template, "conditions")
                @@ [conditions |-> <<>>]
                @@ (IF TextOr(overrides, template, "resolutionStrategy") = <<>>
                       \/ TextOr(overrides, template,
                                 "resolutionStrategy").resolutionStrategy = ""
                    THEN [resolutionStrategy |-> "merge"]
                    ELSE TextOr(overrides, template, "resolutionStrategy"))
                @@ FirstDefined(overrides, template, "enabled")
                @@ [enabled |-> TRUE]
                @@ FirstDefined(overrides, template, "dependencies")
                @@ FirstDefined(overrides, template, "exclusions")
                @@ FirstDefined(overrides, template, "chain")
                @@ FirstDefined(overrides, template, "executeAfter")
                @@ FirstDefined(overrides, template, "executeBefore")
                @@ FirstDefined(overrides, template, "stopPropagation")
                @@ FirstDefined(overrides, template, "composition")
                @@ FirstDefined(overrides, template, "tags")

(***************************************************************************)
(* POST /rules/from-template beside POST /config and the resolve request.  *)
(* Specification "app" defines the templates "t" and "shared", "web"       *)
(* defines "shared" with another content or no template at all.            *)
(***************************************************************************)
TemplateT == [name |-> "T", priority |-> 1, config |-> M([a |-> S("s")])]
TemplateShared == [name |-> "W", config |-> M([a |-> Nul]), enabled |-> FALSE]

TemplateBodies ==
    {[id |-> S("s"), appId |-> S("app"), version |-> S("1.0.0"),
      schema |-> OpenSchema, defaultConfig |-> M(<<>>),
      ruleTemplates |-> [t |-> TemplateT, shared |-> TemplateT]],
     [id |-> S("t"), appId |-> S("web"), version |-> S("1.0.0"),
      schema |-> OpenSchema, defaultConfig |-> M(<<>>),
      ruleTemplates |-> [shared |-> TemplateShared]],
     [id |-> S("u"), appId |-> S("web"), version |-> S("1.0.0"),
      schema |-> OpenSchema, defaultConfig |-> M(<<>>)]}

TemplateIds == {"t", "shared"}

TemplateOverrides ==
    {[id |-> "n"], [id |-> "n", name |-> "N", config |-> M(("0" :> S("s")))],
     [name |-> "N"]}

\* POST /rules/from-template
FromTemplateHandler(appId, version, templateId, overrides) ==
    /\ call[1] = "server"
    /\ IF templateId = "" \/ appId = "" \/ version = ""
       THEN /\ response' = [status |-> 400, error |-> "Missing required fields"]
            /\ UNCHANGED templates
       ELSE IF ~ HasSpecification(specifications, S(appId), S(version))
       THEN /\ response' = [status |-> 404, error |-> "Configuration not found"]
            /\ UNCHANGED templates
       ELSE \E spec \in {getSpecification(specifications, S(appId),
                                           S(version))} :
            /\ templates' =
                    IF "ruleTemplates" \in DOMAIN spec
                    THEN registerTemplates(templates, spec.ruleTemplates)
                    ELSE templates
            /\ \E rule \in {createFromTemplate(templates', templateId,
                                               overrides)} :
                    response' =
                        IF IsError(rule) THEN ServerError(rule.error)
                        ELSE [status |-> 200,
                              message |->
                                "Rule created from template successfully",
                              rule |-> rule]
    /\ locals' = [handler |-> "POST from-template", appId |-> appId,
                  version |-> version, templateId |-> templateId,
                  overrides |-> overrides]
    /\ UNCHANGED <<call, ret, engineVars, specifications, clock,
                   loadedRulesCache>>

PostTemplates == \E body \in TemplateBodies : PostHandler(body)

GetTemplates == \E appId \in AppIds : GetHandler(appId, "1.0.0", BaseRequest)

FromTemplate ==
    \E appId \in AppIds, templateId \in TemplateIds,
       overrides \in TemplateOverrides :
        FromTemplateHandler(appId, "1.0.0", templateId, overrides)

TemplatesNext == PostTemplates \/ GetTemplates \/ FromTemplate

SpecTemplates == ServerInit /\ [][TemplatesNext]_vars

\* the templates the stored specification of the request defines
OwnTemplates ==
    LET spec == getSpecification(specifications, S(locals.appId),
                                 S(locals.version))
    IN  IF "ruleTemplates" \in DOMAIN spec THEN spec.ruleTemplates ELSE <<>>

\* C37: a from-template request for a stored specification is answered
\* from that specification's own templates, whatever was served before: a
\* templateId it does not define fails with template-not-found, one it
\* defines uses its template
C37_TemplatesIsolated ==
    (locals.handler = "POST from-template" /\ response.status # 404) =>
        LET rule == createFromTemplate(OwnTemplates, locals.templateId,
                                       locals.overrides)
        IN  IF IsError(rule)
            THEN response = ServerError(rule.error)
            ELSE response.status = 200 /\ response.rule = rule

\* the ids of a rule list, in order
IdsOf(rules) == [k \in DOMAIN rules |-> rules[k].id]

UniqueIds(rules) ==
    \A i, j \in DOMAIN rules : rules[i].id = rules[j].id => i = j

\* C38: on a specification whose rule ids are unique, the list handed to
\* evaluateAllRules holds every rule id of the specification exactly once
\* and no other id
C38_EvaluationSetExact ==
    (Resolved /\ locals.evaluated /\ UniqueIds(locals.spec.rules)) =>
        /\ {locals.allRules[k].id : k \in DOMAIN locals.allRules}
                = {locals.spec.rules[i].id : i \in DOMAIN locals.spec.rules}
        /\ UniqueIds(locals.allRules)

(***************************************************************************)
(* Writes in two steps.  POST and PUT /config run to                       *)
(* `await fs.writeFile(...)` inside saveSpecification, other requests are  *)
(* served while the file is written, and the handler goes on from the      *)
(* write's outcome: `this.specifications.set(key, spec)` and the response  *)
(* when it succeeded, the catch block when it failed.  call[2] holds the   *)
(* resolve requests waiting for the geolocation lookup, call[3] the writes *)
(* waiting for the file, call[4] every specification the map has held.     *)
(***************************************************************************)
WriteBodies ==
    {body \in Bodies :
        /\ body.appId = S("app")
        /\ "rules" \in DOMAIN body
        /\ body.rules \in {<<RuleA2>>, <<RuleB, RuleM>>}}

WriteUpdates ==
    {[defaultConfig |-> M(("0" :> S("s"))), rules |-> <<RuleB>>],
     [rules |-> <<RuleB, RuleM>>]}

WritesInit ==
    /\ call = <<"server", {}, {}, {}>>
    /\ ret = Pending
    /\ EngineInit

\* POST /config up to the await; a body that is refused never gets there
StartPost ==
    \E body \in WriteBodies :
        /\ call[1] = "server"
        /\ validateConfig(body.defaultConfig, body.schema).valid
        /\ Cardinality(call[3]) < MaxInFlight
        /\ clock < MaxWrites
        /\ clock' = clock + 1
        /\ call' = [call EXCEPT ![3] = @ \cup
                {[handler |-> "POST",
                  spec |-> [createdAt |-> toISOString(clock'),
                            updatedAt |-> toISOString(clock'),
                            rules |-> body.rules,
                            conditionalRules |->
                                IF "conditionalRules" \in DOMAIN body
                                THEN body.conditionalRules ELSE <<>>] @@ body,
                  response |->
                    [status |-> 201,
                     message |-> "Configuration created successfully",
                     spec |-> [id |-> Field(body, "id"), appId |-> body.appId,
                               version |-> body.version]]]}]
        /\ UNCHANGED <<ret, engineVars, specifications, loadedRulesCache,
                       templates, response, locals>>

\* PUT /config/:appId/:version up to the await
StartPut ==
    \E appId \in {"app"}, version \in Versions, updates \in WriteUpdates :
        /\ call[1] = "server"
        /\ HasSpecification(specifications, S(appId), S(version))
        /\ Cardinality(call[3]) < MaxInFlight
        /\ clock < MaxWrites
        /\ clock' = clock + 1
        /\ \E spec \in {updatedSpec(getSpecification(specifications,
                                                     S(appId), S(version)),
                                    updates, appId, version)} :
            /\ \/ ~ Truthy(Field(updates, "defaultConfig"))
               \/ validateConfig(spec.defaultConfig, spec.schema).valid
            /\ call' = [call EXCEPT ![3] = @ \cup
                    {[handler |-> "PUT",
                      spec |-> [updatedAt |-> toISOString(clock')] @@ spec,
                      response |->
                        [status |-> 200,
                         message |-> "Configuration updated successfully",
                         spec |-> [id |-> spec.id, appId |-> spec.appId,
                                   version |-> spec.version,
                                   updatedAt |-> toISOString(clock')]]]}]
        /\ UNCHANGED <<ret, engineVars, specifications, loadedRulesCache,
                       templates, response, locals>>

\* the handler from the outcome of fs.writeFile on
FinishWrite ==
    \E write \in call[3], written \in BOOLEAN :
        /\ call[1] = "server"
        /\ IF written
           THEN /\ specifications' =
                    (StoreKey(write.spec.appId, write.spec.version)
                        :> write.spec) @@ specifications
                /\ response' = write.response
                /\ call' = [call EXCEPT ![3] = @ \ {write},
                                        ![4] = @ \cup {write.spec}]
           ELSE /\ response' = ServerError("write failed")
                /\ call' = [call EXCEPT ![3] = @ \ {write}]
                /\ UNCHANGED specifications
        /\ locals' = [handler |-> write.handler, written |-> written]
        /\ UNCHANGED <<ret, engineVars, clock, loadedRulesCache, templates>>

\* the resolve handler up to `await geoService.lookupIP(clientIP)`
StartRead ==
    \E req \in {BaseRequest} :
        /\ call[1] = "server"
        /\ [appId |-> "app", version |-> "1.0.0", req |-> req] \notin call[2]
        /\ call' = [call EXCEPT ![2] = @ \cup {[appId |-> "app",
                                                version |-> "1.0.0",
                                                req |-> req]}]
        /\ UNCHANGED <<ret, engineVars, serverVars>>

\* the resolve handler from the return of the lookup to its response
FinishRead ==
    \E pending \in call[2] :
        /\ GetContinuation(pending.appId, pending.version, pending.req)
        /\ call' = [call EXCEPT ![2] = @ \ {pending}]
        /\ UNCHANGED ret

WritesNext == StartPost \/ StartPut \/ FinishWrite \/ StartRead \/ FinishRead

SpecWrites == WritesInit /\ [][WritesNext]_vars

\* the response of a server that holds the specification and has served
\* nothing before
ResponseFrom(spec) ==
    resolve(locals.appId, locals.version, spec, locals.context, <<>>,
            [registry |-> <<>>, cache |-> <<>>]).response

\* C39: whatever writes are in flight or have completed, a resolve is
\* answered from one whole specification that the map has held for the
\* pair, never from parts of two of them
C39_WholeSpecification ==
    Resolved =>
        \E spec \in call[4] :
            /\ spec.appId = S(locals.appId)
            /\ spec.version = S(locals.version)
            /\ response = ResponseFrom(spec)

\* C40: the store keeps one entry per saved (appId, version) pair: every
\* pair saved so far still has its most recently saved specification in
\* the store, and the store has as many entries as pairs were saved
C40_KeyInjective ==
    /\ \A pair \in DOMAIN locals.saved :
            \E key \in DOMAIN specifications :
                specifications[key] = locals.saved[pair]
    /\ Cardinality(DOMAIN specifications) = Cardinality(DOMAIN locals.saved)

====
